---- MODULE Spec2Model ----
(***************************************************************************)
(* mol2chemfig: the construction of a Molecule (molecule.py) from a        *)
(* toolkit molecule: bond index, fragment links, the tree of bonds, the    *)
(* trunk, cross bonds, ring annotation and the render pass.                *)
(*                                                                         *)
(* Atoms are their indexes 0..natoms-1.  A Bond object is a record of the  *)
(* heap `bonds`, named by a 4-tuple <<kind, start, end, serial>>:          *)
(*   <<"bond", s, e, 0>>    the object stored in self.bonds[(s, e)]        *)
(*   <<"root", -1, e, 0>>   the DummyFirstBond of parseTree                *)
(*   <<"clone", s, e, k>>   the copy made for the k-th declared cross bond *)
(*   <<"pseudo", s, e, k>>  the pen-move bond made for the k-th cross bond *)
(*   <<"arb", s, e, k>>     the AromaticRingBond of the k-th ring          *)
(* Bond angles are kept symbolically: the angle of the bond from a to b is *)
(* the pair <<a, b>>; two different bonds at an atom are taken to have     *)
(* different (rounded) angles.                                             *)
(***************************************************************************)
EXTENDS Integers, Sequences, FiniteSets, TLC

VARIABLES
    pc,           \* position in Molecule.__init__
    error,        \* the exception that ended the construction, or "none"
    tkmol,        \* the toolkit molecule: atom count and neighbor lists
    natoms,       \* len(self.atoms)
    neighbors,    \* atom.neighbors of every atom
    bond_angles,  \* atom.bond_angles of every atom (symbolic angles)
    bonds,        \* the Bond objects: self.bonds and the tree nodes
    seen_atoms,   \* self.seen_atoms
    seen_bonds,   \* self.seen_bonds
    entry_atom,   \* self.entry_atom
    exit_atom,    \* self.exit_atom
    root,         \* self.root
    exit_bond,    \* self.exit_bond
    rendered,     \* self._rendered
    args,         \* bond.py on its own: the coordinates and options of a call
    objs,         \* bond.py on its own: the Bond objects made so far
    result        \* what processor.process returned

vars == <<pc, error, tkmol, natoms, neighbors, bond_angles, bonds, seen_atoms,
          seen_bonds, entry_atom, exit_atom, root, exit_bond, rendered, args, objs,
          result>>

\* the state of a Molecule under construction
molecule_vars == <<pc, error, tkmol, natoms, neighbors, bond_angles, bonds, seen_atoms,
                   seen_bonds, entry_atom, exit_atom, root, exit_bond, rendered>>

\* the state of the Bond objects handled on their own
bond_vars == <<args, objs>>

\* ------------------------------------------------------------------ bounds
MaxAtoms == 4
MaxBonds == 4
MaxCross == 1
MaxAtomNumber == 2
MaxRepeatAtoms == 3

\* ------------------------------------------------------------------ values
\* Python's None where an atom index is expected
NoAtom == -1

\* Python's None where a Bond is expected
NoBond == <<"none", NoAtom, NoAtom, 0>>

BondId(s, e) == <<"bond", s, e, 0>>
RootId(e) == <<"root", NoAtom, e, 0>>
CloneId(s, e, k) == <<"clone", s, e, k>>
PseudoId(s, e, k) == <<"pseudo", s, e, k>>
RingId(s, e, k) == <<"arb", s, e, k>>

\* Bond.__init__ : the fields the tree construction reads and writes
Bond(s, e, type) ==
    [start_atom |-> s, end_atom |-> e, bond_type |-> type,
     to_phantom |-> FALSE, is_trunk |-> FALSE, is_last |-> FALSE,
     clockwise |-> 0, parent |-> NoBond, descendants |-> <<>>, tikz_styles |-> {}]

\* DummyFirstBond.__init__ : only an end atom
DummyFirstBond(e) == Bond(NoAtom, e, "first")

\* an invert that leaves the angle as it is
invert_keep_angle(b) ==
    [b EXCEPT !.start_atom = b.end_atom, !.end_atom = b.start_atom,
              !.bond_type = IF @ = "upto" THEN "upfrom"
                            ELSE IF @ = "downto" THEN "downfrom" ELSE @]

\* Bond.invert : a copy with start and end swapped, the angle turned by 180
\* degrees, and upto and downto retyped.  (The tree model keeps its angles
\* in bond_angles; only a Bond handled on its own carries the field angle.)
invert(b) ==
    LET c == [b EXCEPT !.start_atom = b.end_atom, !.end_atom = b.start_atom,
                       !.bond_type = IF @ = "upto" THEN "upfrom"
                                     ELSE IF @ = "downto" THEN "downfrom" ELSE @]
    IN  IF "angle" \in DOMAIN b THEN [c EXCEPT !.angle = (@ + 180) % 360] ELSE c

\* Bond.set_link
set_link(b) == [b EXCEPT !.bond_type = "link", !.tikz_styles = {}]

\* ------------------------------------------------------------------ helpers
RECURSIVE Perms(_)
Perms(S) ==
    IF S = {} THEN {<<>>}
    ELSE UNION {{<<x>> \o p : p \in Perms(S \ {x})} : x \in S}

Range(s) == {s[i] : i \in 1..Len(s)}

Last(s) == s[Len(s)]

\* ------------------------------------------------------------------ toolkit molecules
Atoms(n) == 0..(n - 1)

\* the undirected atom pairs of n atoms
Pairs(n) == {<<a, b>> \in Atoms(n) \X Atoms(n) : a < b}

Adjacent(E, a) == {b \in 0..MaxAtoms : <<a, b>> \in E \/ <<b, a>> \in E}

RECURSIVE NeighborChoices(_, _, _)
\* every way to order the neighbor list of each of the atoms 0..k-1
NeighborChoices(n, E, k) ==
    IF k = 0 THEN {<<>>}
    ELSE {Append(s, p) : s \in NeighborChoices(n, E, k - 1),
                         p \in Perms(Adjacent(E, k - 1))}

\* what iterateAtoms / iterateNeighbors can deliver
TkMolecules ==
    UNION {UNION {{[natoms |-> n, neighbors |-> [a \in Atoms(n) |-> s[a + 1]]]
                      : s \in NeighborChoices(n, E, n)}
                  : E \in {X \in SUBSET Pairs(n) : Cardinality(X) <= MaxBonds}}
           : n \in 1..MaxAtoms}

\* s with x put in after position i
InsertAt(s, i, x) == SubSeq(s, 1, i) \o <<x>> \o SubSeq(s, i + 1, Len(s))

\* toolkit molecules of a multigraph kind: one neighbor list names one of its
\* atoms a second time
TkRepeatMolecules ==
    UNION {UNION {{[tk EXCEPT !.neighbors[a] = InsertAt(@, i, @[j])]
                      : <<i, j>> \in (0..Len(tk.neighbors[a])) \X (1..Len(tk.neighbors[a]))}
                  : a \in Atoms(tk.natoms)}
           : tk \in {m \in TkMolecules : m.natoms <= MaxRepeatAtoms}}

\* the bonded pairs of a toolkit molecule, each once, as a < b
TkEdges(tk) ==
    {<<a, b>> \in Pairs(tk.natoms) : b \in Range(tk.neighbors[a])}

\* what iterateBonds can deliver: the bonds in any order, each with either
\* atom as its source
TkBondLists(tk) ==
    UNION {{[i \in 1..Len(p) |-> IF i \in F THEN <<p[i][2], p[i][1]>> ELSE p[i]]
               : F \in SUBSET (1..Len(p))}
           : p \in Perms(TkEdges(tk))}

\* ------------------------------------------------------------------ parseBonds
RECURSIVE parseBonds(_, _)
\* Molecule.parseBonds : both orientations of every bond
parseBonds(atom_pairs, i) ==
    IF i > Len(atom_pairs) THEN <<>>
    ELSE LET s == atom_pairs[i][1]
             e == atom_pairs[i][2]
             bond == Bond(s, e, "single")
         IN  (BondId(s, e) :> bond) @@ (BondId(e, s) :> invert(bond))
                 @@ parseBonds(atom_pairs, i + 1)

\* Molecule.__init__ : the angle of every stored bond goes to its first atom
initial_bond_angles(n, bs) ==
    [a \in Atoms(n) |-> {<<a, bs[k].end_atom>> : k \in {x \in DOMAIN bs : bs[x].start_atom = a}}]

\* ------------------------------------------------------------------ fragments
RECURSIVE split_scan(_, _, _, _, _)
\* one pass of split_pairs over rest
split_scan(rest, i, connected_atoms, connected_pairs, unconnected) ==
    IF i > Len(rest)
    THEN [connected_atoms |-> connected_atoms, connected_pairs |-> connected_pairs,
          unconnected |-> unconnected]
    ELSE LET r == rest[i]
             s == {r[1], r[2]}
         IN  IF connected_atoms \cap s # {}
             THEN split_scan(rest, i + 1, connected_atoms \cup s,
                             Append(connected_pairs, r), unconnected)
             ELSE split_scan(rest, i + 1, connected_atoms, connected_pairs,
                             Append(unconnected, r))

RECURSIVE split_loop(_, _, _)
split_loop(rest, connected_atoms, connected_pairs) ==
    LET p == split_scan(rest, 1, connected_atoms, connected_pairs, <<>>)
    IN  IF Len(p.unconnected) = Len(rest)
        THEN <<p.connected_pairs, p.unconnected>>
        ELSE split_loop(p.unconnected, p.connected_atoms, p.connected_pairs)

\* molecule_fragments.split_pairs
split_pairs(pair_list) ==
    split_loop(Tail(pair_list), {pair_list[1][1], pair_list[1][2]}, <<pair_list[1]>>)

RECURSIVE fragments_loop(_, _)
fragments_loop(atom_pairs, fragments) ==
    LET sp == split_pairs(atom_pairs)
    IN  IF sp[2] = <<>> THEN Append(fragments, sp[1])
        ELSE fragments_loop(sp[2], Append(fragments, sp[1]))

\* Molecule.molecule_fragments
molecule_fragments(atom_pairs) ==
    IF Len(atom_pairs) = 0 THEN <<>>
    ELSE IF Len(atom_pairs) = 1 THEN <<atom_pairs>>
    ELSE fragments_loop(atom_pairs, <<>>)

\* a link_atoms that enters the link in the first atom's neighbor list only
link_atoms_one_way(m, x, y) ==
    LET bond == [Bond(x, y, "link") EXCEPT !.tikz_styles = {}]
    IN  [bonds |-> (<<"bond", x, y, 0>> :> bond)
                       @@ (<<"bond", y, x, 0>> :> [bond EXCEPT !.start_atom = y, !.end_atom = x])
                       @@ m.bonds,
         neighbors |-> [m.neighbors EXCEPT ![x] = Append(@, y)]]

\* Molecule.link_atoms, on the pair [bonds, neighbors]
link_atoms(m, x, y) ==
    LET bond == set_link(Bond(x, y, "none"))
    IN  [bonds |-> (BondId(x, y) :> bond) @@ (BondId(y, x) :> invert(bond)) @@ m.bonds,
         neighbors |-> [m.neighbors EXCEPT ![x] = Append(@, y), ![y] = Append(@, x)]]

RECURSIVE link_fragments(_, _, _)
\* connect_fragments : the loop over consecutive fragments
link_fragments(m, fragments, i) ==
    IF i >= Len(fragments) THEN m
    ELSE LET head_last == Last(fragments[i])[2]
             tail_first == fragments[i + 1][1][1]
         IN  link_fragments(link_atoms(m, head_last, tail_first), fragments, i + 1)

RECURSIVE link_orphans(_, _, _, _)
\* connect_fragments : the loop over the unbonded atoms
link_orphans(m, anchor, unbonded, i) ==
    IF i > Len(unbonded) THEN m
    ELSE link_orphans(link_atoms(m, anchor, unbonded[i]), anchor, unbonded, i + 1)

\* the atoms no pair of atom_pairs names
unbonded_atoms(n, atom_pairs) ==
    Atoms(n) \ UNION {{atom_pairs[i][1], atom_pairs[i][2]} : i \in 1..Len(atom_pairs)}

\* Molecule.connect_fragments; unbonded is list(atoms - bonded), in the
\* order the set happens to be iterated in
connect_fragments(m, atom_pairs, unbonded) ==
    LET fragments == molecule_fragments(atom_pairs)
        m1 == IF Len(fragments) > 1 THEN link_fragments(m, fragments, 1) ELSE m
    IN  IF unbonded = <<>> THEN m1
        ELSE IF fragments # <<>>
             THEN link_orphans(m1, Last(Last(fragments))[2], unbonded, 1)
             ELSE link_orphans(m1, unbonded[1], Tail(unbonded), 1)

\* ------------------------------------------------------------------ actions
\* at position p, before Molecule.__init__ runs on a toolkit molecule of M
InitAt(p, M) ==
    /\ pc = p
    /\ error = "none"
    /\ tkmol \in M
    /\ natoms = 0
    /\ neighbors = <<>>
    /\ bond_angles = <<>>
    /\ bonds = <<>>
    /\ seen_atoms = {}
    /\ seen_bonds = {}
    /\ entry_atom = NoAtom
    /\ exit_atom = NoAtom
    /\ root = NoBond
    /\ exit_bond = NoBond
    /\ rendered = <<>>

\* before Molecule.__init__ runs on a toolkit molecule of M
InitWith(M) == InitAt("new", M)

\* no Bond object is handled on its own
NoArgs == <<>>

\* processor.process has not returned
NoResult == <<>>

Init == InitWith(TkMolecules) /\ args = NoArgs /\ objs = <<>> /\ result = NoResult

\* Molecule.__init__ up to connect_fragments, when iterateBonds delivers
\* atom_pairs and the atoms without a bond are met in the order unbonded
parse_with(atom_pairs, unbonded) ==
    /\ pc = "new"
    /\ LET bs == parseBonds(atom_pairs, 1)
           m == connect_fragments([bonds |-> bs, neighbors |-> tkmol.neighbors],
                                  atom_pairs, unbonded)
       IN  /\ natoms' = tkmol.natoms
           /\ bond_angles' = initial_bond_angles(tkmol.natoms, bs)
           /\ bonds' = m.bonds
           /\ neighbors' = m.neighbors
    /\ pc' = "connected"
    /\ UNCHANGED <<bond_vars, result>>
    /\ UNCHANGED <<error, tkmol, seen_atoms, seen_bonds, entry_atom, exit_atom, root,
                   exit_bond, rendered>>

\* Molecule.__init__ up to connect_fragments
Parse ==
    /\ pc = "new"
    /\ \E atom_pairs \in TkBondLists(tkmol) :
           \E unbonded \in Perms(unbonded_atoms(tkmol.natoms, atom_pairs)) :
               parse_with(atom_pairs, unbonded)

\* ------------------------------------------------------------------ entry and exit
\* an option that holds an atom number: {} is None, {k} is the number k
\* (the numbers tried: 0, 1..MaxAtomNumber, and n + 1, which names no atom)
AtomOptions(n) == {{}} \cup {{k} : k \in ((0 - 1)..MaxAtomNumber) \cup {n + 1}}

\* a range test that forgets the numbers below 1
InvalidAtomNumber_above(n, opt) == \E k \in opt : k > n

\* self.atoms.get(k - 1) is None
InvalidAtomNumber(n, opt) == \E k \in opt : (k - 1) \notin Atoms(n)

\* a pickFirstLastAtoms that takes the first atom enumerated
default_entry_atom_unsorted(n, nb) == 0

\* pickFirstLastAtoms : the first atom of the atoms sorted by neighbor count
\* (a stable sort of the atoms in enumeration order)
default_entry_atom(n, nb) ==
    CHOOSE a \in Atoms(n) :
        \A b \in Atoms(n) :
            \/ Len(nb[a]) < Len(nb[b])
            \/ (Len(nb[a]) = Len(nb[b]) /\ a <= b)

\* Molecule.pickFirstLastAtoms with options['entry_atom'] = entry_opt and
\* options['exit_atom'] = exit_opt
pick_atoms(entry_opt, exit_opt) ==
    /\ pc = "connected"
    /\ IF InvalidAtomNumber(natoms, entry_opt) \/ InvalidAtomNumber(natoms, exit_opt)
       THEN /\ pc' = "failed"
            /\ error' = "MCFError"
            /\ UNCHANGED <<entry_atom, exit_atom>>
       ELSE /\ pc' = "picked"
            /\ error' = error
            /\ entry_atom' = IF entry_opt = {}
                             THEN default_entry_atom(natoms, neighbors)
                             ELSE (CHOOSE k \in entry_opt : TRUE) - 1
            /\ exit_atom' = IF exit_opt = {} THEN NoAtom
                            ELSE (CHOOSE k \in exit_opt : TRUE) - 1
    /\ UNCHANGED <<bond_vars, result>>
    /\ UNCHANGED <<tkmol, natoms, neighbors, bond_angles, bonds, seen_atoms, seen_bonds,
                   root, exit_bond, rendered>>

\* Molecule.__init__ : self.entry_atom, self.exit_atom = self.pickFirstLastAtoms()
pickFirstLastAtoms ==
    \E entry_opt \in AtomOptions(natoms), exit_opt \in AtomOptions(natoms) :
        pick_atoms(entry_opt, exit_opt)

\* ------------------------------------------------------------------ parseTree
\* a guard that looks up the forward key only
reentrant_forward_only(sb, start_idx, end_idx) == <<start_idx, end_idx>> \in sb

\* parseTree : the guard against reentrant bonds
reentrant(sb, start_idx, end_idx) ==
    <<start_idx, end_idx>> \in sb \/ <<end_idx, start_idx>> \in sb

\* a parseTree that takes no bond for a ring closure
closes_ring_never(sa, end_idx) == FALSE

\* parseTree : the bond closes a ring
closes_ring(sa, end_idx) == end_idx \in sa

\* a parseTree that puts the next bond in front of its siblings
attach_in_front(descendants, next_bond) == <<next_bond>> \o descendants

\* parseTree : bond.descendants.append(next_bond)
attach(descendants, next_bond) == Append(descendants, next_bond)

RECURSIVE parseTree(_, _, _), parseNeighbors(_, _, _, _, _)
\* Molecule.parseTree on st = [seen_atoms, seen_bonds, bonds, exit_bond, ret]:
\* ret is the returned Bond
parseTree(st, start_idx, end_idx) ==
    IF start_idx # NoAtom /\ reentrant(st.seen_bonds, start_idx, end_idx)
    THEN [st EXCEPT !.ret = NoBond]
    ELSE LET bond == IF start_idx = NoAtom THEN RootId(end_idx)
                     ELSE BondId(start_idx, end_idx)
             st1 == IF start_idx = NoAtom
                    THEN [st EXCEPT !.bonds = (bond :> DummyFirstBond(end_idx)) @@ @]
                    ELSE [st EXCEPT !.seen_bonds = @ \cup {<<start_idx, end_idx>>}]
         IN  IF start_idx # NoAtom /\ closes_ring(st1.seen_atoms, end_idx)
             THEN [st1 EXCEPT !.bonds[bond].to_phantom = TRUE, !.ret = bond]
             ELSE LET st2 == [st1 EXCEPT !.seen_atoms = @ \cup {end_idx},
                                         !.exit_bond = IF end_idx = exit_atom
                                                       THEN bond ELSE @]
                      st3 == parseNeighbors(st2, bond, start_idx, end_idx, 1)
                  IN  [st3 EXCEPT !.ret = bond]

\* parseTree : the loop over end_atom.neighbors from position i
parseNeighbors(st, bond, start_idx, end_idx, i) ==
    IF i > Len(neighbors[end_idx]) THEN st
    ELSE LET ni == neighbors[end_idx][i]
         IN  IF start_idx # NoAtom /\ ni = start_idx
             THEN parseNeighbors(st, bond, start_idx, end_idx, i + 1)
             ELSE LET r == parseTree(st, end_idx, ni)
                  IN  IF r.ret = NoBond
                      THEN parseNeighbors(r, bond, start_idx, end_idx, i + 1)
                      ELSE parseNeighbors(
                               [r EXCEPT !.bonds[r.ret].parent = bond,
                                         !.bonds[bond].descendants = attach(@, r.ret)],
                               bond, start_idx, end_idx, i + 1)

\* Molecule.__init__ : self.root = self.parseTree(None, self.entry_atom)
BuildTree ==
    /\ pc = "picked"
    /\ LET r == parseTree([seen_atoms |-> {}, seen_bonds |-> {}, bonds |-> bonds,
                           exit_bond |-> NoBond, ret |-> NoBond], NoAtom, entry_atom)
       IN  /\ seen_atoms' = r.seen_atoms
           /\ seen_bonds' = r.seen_bonds
           /\ bonds' = r.bonds
           /\ exit_bond' = r.exit_bond
           /\ root' = r.ret
    /\ pc' = "tree"
    /\ UNCHANGED <<bond_vars, result>>
    /\ UNCHANGED <<error, tkmol, natoms, neighbors, bond_angles, entry_atom, exit_atom,
                   rendered>>

\* ------------------------------------------------------------------ exit bond and trunk
RECURSIVE treebonds_from(_, _)
\* treebonds.recurse : rt and all below it, depth first
treebonds_from(bs, rt) ==
    LET d == bs[rt].descendants
        F[i \in 0..Len(d)] == IF i = 0 THEN <<rt>> ELSE F[i - 1] \o treebonds_from(bs, d[i])
    IN  F[Len(d)]

\* Molecule.treebonds(root=False)
treebonds(bs, rt) == Tail(treebonds_from(bs, rt))

RECURSIVE distance(_, _, _)
\* default_exit_bond : the steps from the_bond up to the entry atom
distance(bs, entry, the_bond) ==
    IF the_bond # NoBond /\ bs[the_bond].end_atom # entry
    THEN 1 + distance(bs, entry, bs[the_bond].parent)
    ELSE 0

\* a default_exit_bond that returns scored[0], the first of the least distance
first_of_sorted(scored) ==
    LET low == CHOOSE i \in 1..Len(scored) :
                   /\ \A j \in 1..Len(scored) : scored[j][1] >= scored[i][1]
                   /\ \A j \in 1..(i - 1) : scored[j][1] > scored[i][1]
    IN  scored[low]

\* scored.sort(key=lambda el: el[0]); scored[-1] : the sort is stable, so
\* the last element is the last of the greatest distance in list order
last_of_sorted(scored) ==
    LET top == CHOOSE i \in 1..Len(scored) :
                   /\ \A j \in 1..Len(scored) : scored[j][1] <= scored[i][1]
                   /\ \A j \in (i + 1)..Len(scored) : scored[j][1] < scored[i][1]
    IN  scored[top]

\* Molecule.default_exit_bond
default_exit_bond(bs, rt, entry) ==
    LET tb == SelectSeq(treebonds(bs, rt), LAMBDA b : ~bs[b].to_phantom)
        scored == [i \in 1..Len(tb) |->
                      <<distance(bs, entry, tb[i]), Len(bs[tb[i]].descendants), tb[i]>>]
    IN  last_of_sorted(scored)[3]

RECURSIVE flag_trunk(_, _, _)
\* Molecule.__init__ : the while loop that flags the trunk
flag_trunk(bs, entry, flagged_bond) ==
    IF bs[flagged_bond].end_atom # entry
    THEN flag_trunk([bs EXCEPT ![flagged_bond].is_trunk = TRUE], entry,
                    bs[flagged_bond].parent)
    ELSE bs

\* Molecule.__init__ : default exit bond and trunk flags
MarkTrunk ==
    /\ pc = "tree"
    /\ natoms > 1
    /\ LET xb == IF exit_atom = NoAtom
                 THEN default_exit_bond(bonds, root, entry_atom)
                 ELSE exit_bond
           xa == IF exit_atom = NoAtom THEN bonds[xb].end_atom ELSE exit_atom
       IN  /\ exit_bond' = xb
           /\ exit_atom' = xa
           /\ bonds' = IF entry_atom # xa THEN flag_trunk(bonds, entry_atom, xb)
                       ELSE bonds
    /\ pc' = "trunk"
    /\ UNCHANGED <<bond_vars, result>>
    /\ UNCHANGED <<error, tkmol, natoms, neighbors, bond_angles, seen_atoms, seen_bonds,
                   entry_atom, root, rendered>>

\* ------------------------------------------------------------------ cross bonds
\* the values of options['cross_bond']: None (written <<>>) or a list of
\* pairs of atom numbers (RangeOption._validate)
CrossOptions(n) ==
    {<<>>} \cup UNION {[1..len -> (1..(n + 1)) \X (1..(n + 1))] : len \in 1..MaxCross}

\* Bond._adjoining_angles : what becomes of the call for the bond whose angle
\* at this atom is reference: raw_angles.remove raises ValueError when the
\* angle is not in the list; (None, None) when no other angle is left
adjoining_angles(angles, reference) ==
    IF reference \notin angles THEN "ValueError"
    ELSE IF angles \ {reference} = {} THEN "None"
    ELSE "angles"

\* Bond.set_cross : the exception it ends with, or "none": min() of the two
\* None values of upstream_angles() or downstream_angles() is a TypeError
set_cross_error(b) ==
    LET up == adjoining_angles(bond_angles[b.start_atom], <<b.start_atom, b.end_atom>>)
        down == adjoining_angles(bond_angles[b.end_atom], <<b.end_atom, b.start_atom>>)
    IN  IF up = "ValueError" \/ down = "ValueError" THEN "ValueError"
        ELSE IF up = "None" \/ down = "None" THEN "TypeError"
        ELSE "none"

\* Bond.set_cross, when it completes
set_cross(b, last) == [b EXCEPT !.tikz_styles = @ \cup {"cross"}, !.is_last = last]

\* Bond.clone : a shallow copy
clone(b) == b

\* process_cross_bonds : the tree bond of a declared pair, NoBond if none
cross_tree_bond(sb, start, end) ==
    IF <<start, end>> \in sb THEN BondId(start, end)
    ELSE IF <<end, start>> \in sb THEN BondId(end, start)
    ELSE NoBond

\* process_cross_bonds : the special case of the bond rendered last
is_last_of_exit(bs, xb, bond) ==
    bs[xb].descendants # <<>> /\ Last(bs[xb].descendants) = bond

\* process_cross_bonds : the copy of bond is spliced in below the exit bond
splice_cross(bs, xb, xa, bond, k) ==
    LET copy == CloneId(bs[bond].start_atom, bs[bond].end_atom, k)
        bond_copy == [set_cross(clone(bs[bond]), FALSE) EXCEPT
                         !.to_phantom = TRUE, !.descendants = <<>>]
        bs1 == [bs EXCEPT ![bond] = set_link(@)]
    IN  IF bond_copy.start_atom # xa
        THEN LET pseudo == PseudoId(xa, bond_copy.start_atom, k)
                 pseudo_bond == [set_link(Bond(xa, bond_copy.start_atom, "none")) EXCEPT
                                    !.to_phantom = TRUE, !.descendants = <<copy>>,
                                    !.parent = xb]
             IN  (copy :> [bond_copy EXCEPT !.parent = pseudo])
                     @@ (pseudo :> pseudo_bond)
                     @@ [bs1 EXCEPT ![xb].descendants = Append(@, pseudo)]
        ELSE (copy :> bond_copy) @@ [bs1 EXCEPT ![xb].descendants = Append(@, copy)]

RECURSIVE cross_loop(_, _, _, _, _, _)
\* process_cross_bonds : the loop over the declared pairs from position k,
\* on st = [bonds, error]
cross_loop(st, sb, xb, xa, cross_bonds, k) ==
    IF k > Len(cross_bonds) THEN st
    ELSE LET bond == cross_tree_bond(sb, cross_bonds[k][1] - 1, cross_bonds[k][2] - 1)
         IN  IF bond = NoBond THEN [st EXCEPT !.error = "MCFError"]
             ELSE IF is_last_of_exit(st.bonds, xb, bond)
             THEN IF set_cross_error(st.bonds[bond]) # "none"
                  THEN [st EXCEPT !.error = set_cross_error(st.bonds[bond])]
                  ELSE cross_loop([st EXCEPT !.bonds[bond] = set_cross(@, TRUE)],
                                  sb, xb, xa, cross_bonds, k + 1)
             ELSE IF set_cross_error(st.bonds[bond]) # "none"
                  THEN [bonds |-> [st.bonds EXCEPT ![bond] = set_link(@)],
                        error |-> set_cross_error(st.bonds[bond])]
                  ELSE cross_loop([st EXCEPT !.bonds = splice_cross(@, xb, xa, bond, k)],
                                  sb, xb, xa, cross_bonds, k + 1)

\* Molecule.__init__ : a molecule of one atom skips the block of
\* len(self.atoms) > 1, and with it options['cross_bond'], whatever it holds
SkipSingleAtom(cross_bonds) ==
    /\ pc = "tree"
    /\ natoms <= 1
    /\ pc' = "annotated"
    /\ UNCHANGED <<bond_vars, result>>
    /\ UNCHANGED <<error, tkmol, natoms, neighbors, bond_angles, bonds, seen_atoms,
                   seen_bonds, entry_atom, exit_atom, root, exit_bond, rendered>>

\* Molecule.__init__ : if options['cross_bond'] is not None: process_cross_bonds()
process_cross_bonds(cross_bonds) ==
    /\ pc = "trunk"
    /\ LET r == cross_loop([bonds |-> bonds, error |-> "none"], seen_bonds, exit_bond,
                           exit_atom, cross_bonds, 1)
       IN  /\ bonds' = r.bonds
           /\ error' = r.error
           /\ pc' = IF r.error = "none" THEN "crossed" ELSE "failed"
    /\ UNCHANGED <<bond_vars, result>>
    /\ UNCHANGED <<tkmol, natoms, neighbors, bond_angles, seen_atoms, seen_bonds,
                   entry_atom, exit_atom, root, exit_bond, rendered>>

\* Molecule.scaleBonds : only the bond lengths change, which are not modelled
scaleBonds ==
    /\ pc = "crossed"
    /\ pc' = "scaled"
    /\ UNCHANGED <<bond_vars, result>>
    /\ UNCHANGED <<error, tkmol, natoms, neighbors, bond_angles, bonds, seen_atoms,
                   seen_bonds, entry_atom, exit_atom, root, exit_bond, rendered>>

\* ------------------------------------------------------------------ rings
\* every atom an edge set touches lies on exactly two of its edges
TwoRegular(C) ==
    \A v \in UNION {{c[1], c[2]} : c \in C} :
        Cardinality({c \in C : c[1] = v \/ c[2] = v}) = 2

\* iterateSSSR : the rings of the toolkit molecule, each as its set of bonds.
\* Within the bounds the smallest set of smallest rings is the set of the
\* cycles without a chord.
TkRings(tk) ==
    LET E == TkEdges(tk)
        on(C) == UNION {{c[1], c[2]} : c \in C}
    IN  {C \in SUBSET E :
            /\ C # {}
            /\ TwoRegular(C)
            /\ \A D \in SUBSET C : (D # {} /\ D # C) => ~TwoRegular(D)
            /\ \A c \in E \ C : ~({c[1], c[2]} \subseteq on(C))}

\* annotateRing : rings of more bonds than this are skipped
RingLimit == 8

\* annotateRing : tolerance = 0.05, in percent
TolerancePercent == 5

\* what the coordinates give annotateRing: min and max of the bond lengths
\* and of the distances from the center
RingShape(bl_min, bl_max, cd_min, cd_max) ==
    [bl_min |-> bl_min, bl_max |-> bl_max, cd_min |-> cd_min, cd_max |-> cd_max]

\* the shapes tried: a regular polygon, spreads of 5% in both measures, and
\* a spread of 6% in one of them
RingShapes ==
    {RingShape(100, 100, 100, 100), RingShape(95, 100, 95, 100),
     RingShape(94, 100, 100, 100), RingShape(100, 100, 94, 100)}

\* a tolerance test on the bond lengths alone
is_symmetric_bonds_only(shape) ==
    100 * (shape.bl_max - shape.bl_min) <= TolerancePercent * shape.bl_max

\* annotateRing : cd_spread <= tolerance and bl_spread <= tolerance, where a
\* spread is (max - min) / max
is_symmetric(shape) ==
    /\ 100 * (shape.cd_max - shape.cd_min) <= TolerancePercent * shape.cd_max
    /\ 100 * (shape.bl_max - shape.bl_min) <= TolerancePercent * shape.bl_max

\* a ring order that takes the rings as they come
aromatic_first_unsorted(p) == TRUE

\* annotateRings : all_rings sorted by is_aromatic and reversed, so that the
\* aromatic rings come first
aromatic_first(p) ==
    \A i, j \in 1..Len(p) : (i < j /\ p[j].is_aromatic) => p[i].is_aromatic

RECURSIVE RingOrders(_)
\* the rings in any order of enumeration, each with what the toolkit and the
\* coordinates say of it: is_aromatic, the shape and, for aromatizeRing, the
\* last bond that ring.iterateBonds() delivers
RingOrders(R) ==
    IF R = {} THEN {<<>>}
    ELSE UNION {UNION {UNION {{<<[ring |-> r, is_aromatic |-> ar, shape |-> sh,
                                   last |-> lb]>> \o p : p \in RingOrders(R \ {r})}
                              : lb \in IF ar /\ is_symmetric(sh) THEN r
                                       ELSE {CHOOSE c \in r : TRUE}}
                       : sh \in RingShapes}
                : <<r, ar>> \in R \X BOOLEAN}

\* what annotateRings works on: the rings in the order of the loop, and
\* options['aromatic_circles']
RingPlans(tk) ==
    {[rings |-> p, aromatic_circles |-> ac] :
        p \in {q \in RingOrders(TkRings(tk)) : aromatic_first(q)}, ac \in BOOLEAN}

\* a _getBond that takes the toolkit's direction of the bond
getBond_as_given(sb, tkbond) == BondId(tkbond[1], tkbond[2])

\* Molecule._getBond
getBond(sb, tkbond) ==
    IF <<tkbond[1], tkbond[2]>> \in sb THEN BondId(tkbond[1], tkbond[2])
    ELSE BondId(tkbond[2], tkbond[1])

\* AromaticRingBond.__init__ : a node with the class's own descendants list
AromaticRingBond == Bond(NoAtom, NoAtom, "ring")

\* Molecule.aromatizeRing, for the k-th ring annotated
aromatizeRing(bs, sb, r, k) ==
    LET ringbonds == {getBond(sb, c) : c \in r.ring}
        bond == getBond(sb, r.last)
        arb == RingId(bs[bond].start_atom, bs[bond].end_atom, k)
        bs1 == [b \in DOMAIN bs |->
                   IF b \in ringbonds THEN [bs[b] EXCEPT !.bond_type = "aromatic"]
                   ELSE bs[b]]
    IN  (arb :> AromaticRingBond) @@ [bs1 EXCEPT ![bond].descendants = Append(@, arb)]

\* Bond.is_clockwise : assigned only once; the sign depends on the center,
\* and is kept as the number k of the ring whose center it was taken from
is_clockwise(b, k) == IF b.clockwise # 0 THEN b ELSE [b EXCEPT !.clockwise = k]

\* an annotateRing that skips no ring
too_large_never(ringbonds) == FALSE

\* annotateRing : len(bonds) > 8
too_large(ringbonds) == Cardinality(ringbonds) > RingLimit

\* Molecule.annotateRing, for the k-th ring annotated, on st = [bonds, bond_angles]
annotateRing(st, sb, r, k, aromatic_circles) ==
    LET ringbonds == {getBond(sb, c) : c \in r.ring}
        atoms == UNION {{c[1], c[2]} : c \in r.ring}
    IN  IF too_large(ringbonds) THEN st
        ELSE IF r.is_aromatic /\ is_symmetric(r.shape) /\ aromatic_circles
        THEN [bonds |-> aromatizeRing(st.bonds, sb, r, k),
              bond_angles |-> [a \in DOMAIN st.bond_angles |->
                                  IF a \in atoms THEN st.bond_angles[a] \cup {<<a, 0 - k>>}
                                  ELSE st.bond_angles[a]]]
        ELSE [st EXCEPT !.bonds = [b \in DOMAIN @ |->
                                      IF b \in ringbonds THEN is_clockwise(@[b], k)
                                      ELSE @[b]]]

RECURSIVE annotate_loop(_, _, _, _)
\* annotateRings : for is_aromatic, ring in reversed(all_rings)
annotate_loop(st, sb, plan, k) ==
    IF k > Len(plan.rings) THEN st
    ELSE annotate_loop(annotateRing(st, sb, plan.rings[k], k, plan.aromatic_circles),
                       sb, plan, k + 1)

\* Molecule.annotateRings on the rings and the option of plan
annotate_rings(plan) ==
    /\ pc = "scaled"
    /\ LET r == annotate_loop([bonds |-> bonds, bond_angles |-> bond_angles],
                              seen_bonds, plan, 1)
       IN  /\ bonds' = r.bonds
           /\ bond_angles' = r.bond_angles
    /\ pc' = "annotated"
    /\ UNCHANGED <<bond_vars, result>>
    /\ UNCHANGED <<error, tkmol, natoms, neighbors, seen_atoms, seen_bonds,
                   entry_atom, exit_atom, root, exit_bond, rendered>>

\* Molecule.__init__ : self.annotateRings()
annotateRings ==
    /\ pc = "scaled"
    /\ \E plan \in RingPlans(tkmol) : annotate_rings(plan)

\* ------------------------------------------------------------------ render
\* one line of the output: the line of a node, or a bracket
Line(kind, node, level) == [kind |-> kind, node |-> node, level |-> level]

\* a _render that always takes branches.pop(0)
first_branch_front(bs, branches) == 1

\* _render : the position in branches of the first bond with is_trunk, else
\* the first position (branches.pop(i) or branches.pop(0))
first_branch(bs, branches) ==
    IF \E i \in 1..Len(branches) : bs[branches[i]].is_trunk
    THEN CHOOSE i \in 1..Len(branches) :
             /\ bs[branches[i]].is_trunk
             /\ \A j \in 1..(i - 1) : ~bs[branches[j]].is_trunk
    ELSE 1

\* a pop that leaves the list as it is
pop_nothing(s, i) == s

\* list.pop(i), the list that is left
pop(s, i) == SubSeq(s, 1, i - 1) \o SubSeq(s, i + 1, Len(s))

RECURSIVE render_bond(_, _, _, _), renderBranches(_, _, _, _, _)
\* Molecule._render on st = [bonds, output]
render_bond(st, xb, bond, level) ==
    LET st1 == [st EXCEPT !.output = Append(@, Line("bond", bond, level))]
        branches == st1.bonds[bond].descendants
    IN  IF bond = xb THEN renderBranches(st1, xb, level + 1, branches, 1)
        ELSE IF branches # <<>>
        THEN LET i == first_branch(st1.bonds, branches)
                 st2 == [st1 EXCEPT !.bonds[bond].descendants = pop(branches, i)]
                 st3 == renderBranches(st2, xb, level + 1, pop(branches, i), 1)
             IN  render_bond(st3, xb, branches[i], level)
        ELSE st1

\* Molecule._renderBranches, from position i of the list
renderBranches(st, xb, level, branches, i) ==
    IF i > Len(branches) THEN st
    ELSE LET st1 == [st EXCEPT !.output = Append(@, Line("(", NoBond, level))]
             st2 == render_bond(st1, xb, branches[i], level)
             st3 == [st2 EXCEPT !.output = Append(@, Line(")", NoBond, level))]
         IN  renderBranches(st3, xb, level, branches, i + 1)

\* Molecule.render
render(bs, rt, xb) == render_bond([bonds |-> bs, output |-> <<>>], xb, rt, 0)

\* Molecule.__init__ : self._rendered = self.render()
Render ==
    /\ pc = "annotated"
    /\ LET r == render(bonds, root, exit_bond)
       IN  /\ bonds' = r.bonds
           /\ rendered' = r.output
    /\ pc' = "rendered"
    /\ UNCHANGED <<bond_vars, result>>
    /\ UNCHANGED <<error, tkmol, natoms, neighbors, bond_angles, seen_atoms, seen_bonds,
                   entry_atom, exit_atom, root, exit_bond>>

\* ------------------------------------------------------------------ bond.py on its own
\* the stereo constants of the Indigo binding that bond.py imports
Indigo_EITHER == 4
Indigo_UP == 5
Indigo_DOWN == 6
Indigo_CIS == 7
Indigo_TRANS == 8

RECURSIVE dict(_, _)
\* a Python dict display: of two items with equal keys the later one stays
dict(items, i) ==
    IF i = 0 THEN <<>>
    ELSE (items[i][1] :> items[i][2]) @@ dict(items, i - 1)

\* the items of bond_mapping, in the order of the display
bond_mapping_items ==
    << <<1, "single">>, <<2, "double">>, <<3, "triple">>, <<4, "aromatic">>,
       <<Indigo_UP, "upto">>, <<Indigo_DOWN, "downto">>, <<Indigo_EITHER, "either">> >>

\* bond_mapping
bond_mapping == dict(bond_mapping_items, Len(bond_mapping_items))

\* a Bond.__init__ that exchanges up and down whenever a flip is set
resolve_stereo_any_flip(stereo, flip_vertical, flip_horizontal) ==
    IF stereo \in {Indigo_UP, Indigo_DOWN} /\ (flip_vertical \/ flip_horizontal)
    THEN Indigo_UP + Indigo_DOWN - stereo
    ELSE stereo

\* Bond.__init__ : the stereo flag after the flips
resolve_stereo(stereo, flip_vertical, flip_horizontal) ==
    IF stereo \in {Indigo_UP, Indigo_DOWN} /\ flip_vertical # flip_horizontal
    THEN Indigo_UP + Indigo_DOWN - stereo
    ELSE stereo

\* Bond.__init__ : self.bond_type
resolve_bond_type(bond_type, stereo, flip_vertical, flip_horizontal) ==
    LET st == resolve_stereo(stereo, flip_vertical, flip_horizontal)
    IN  IF st \in {Indigo_UP, Indigo_DOWN, Indigo_EITHER} THEN bond_mapping[st]
        ELSE IF bond_type \in DOMAIN bond_mapping THEN bond_mapping[bond_type]
        ELSE bond_type

\* atan(abs(ydiff / xdiff)) * 180/pi in whole degrees, for the slopes that
\* the coordinates of Coords give
atan_degrees(ady, adx) ==
    IF ady = 0 THEN 0
    ELSE IF 4 * ady = adx THEN 14
    ELSE IF 3 * ady = adx THEN 18
    ELSE IF 2 * ady = adx THEN 27
    ELSE IF 3 * ady = 2 * adx THEN 34
    ELSE IF 4 * ady = 3 * adx THEN 37
    ELSE IF ady = adx THEN 45
    ELSE IF 3 * ady = 4 * adx THEN 53
    ELSE IF 2 * ady = 3 * adx THEN 56
    ELSE IF ady = 2 * adx THEN 63
    ELSE IF ady = 3 * adx THEN 72
    ELSE 76

Abs(x) == IF x < 0 THEN 0 - x ELSE x

\* compare_positions : the angle it returns
compare_positions(x1, y1, x2, y2) ==
    LET xdiff == x2 - x1
        ydiff == y2 - y1
        raw_angle == atan_degrees(Abs(ydiff), Abs(xdiff))
    IN  IF xdiff = 0 THEN (IF ydiff < 0 THEN 270 ELSE 90)
        ELSE IF ydiff >= 0 THEN (IF xdiff > 0 THEN raw_angle ELSE 180 - raw_angle)
        ELSE (IF xdiff > 0 THEN 0 - raw_angle ELSE 180 + raw_angle)

\* the coordinates, rotations and stereo flags tried
MaxCoord == 1
Coords == (0 - MaxCoord)..MaxCoord
Rotations == {0, 200}
Stereos == {0, Indigo_EITHER, Indigo_UP, Indigo_DOWN, Indigo_CIS, Indigo_TRANS}
MaxObjs == 3

\* the two atoms of a bond, the arguments of Bond.__init__ and the options read
BondArgs ==
    [x : [{0, 1} -> Coords], y : [{0, 1} -> Coords], bond_type : 1..4, stereo : Stereos,
     flip_vertical : BOOLEAN, flip_horizontal : BOOLEAN, rotate : Rotations]

\* Bond.__init__ with the atoms s and e of a : the type and the rotated angle
new_Bond(a, s, e) ==
    [angle |-> compare_positions(a.x[s], a.y[s], a.x[e], a.y[e]) + a.rotate]
        @@ Bond(s, e, resolve_bond_type(a.bond_type, a.stereo, a.flip_vertical,
                                        a.flip_horizontal))

\* an is_clockwise that mirrors the sign
clockwise_sign_mirrored(angle, center_angle, rotate) ==
    IF ((center_angle + rotate) - angle) % 360 > 180 THEN 0 - 1 ELSE 1

\* Bond.is_clockwise : the sign for a center at center_angle from the end atom
clockwise_sign(angle, center_angle, rotate) ==
    IF ((center_angle + rotate) - angle) % 360 > 180 THEN 1 ELSE 0 - 1

\* an is_clockwise that assigns on every call
is_clockwise_always(b, a, center_x, center_y) ==
    [b EXCEPT !.clockwise =
        clockwise_sign(b.angle,
                       compare_positions(a.x[b.end_atom], a.y[b.end_atom],
                                         center_x, center_y), a.rotate)]

\* Bond.is_clockwise(center_x, center_y) on the bond b of the atoms of a
is_clockwise_xy(b, a, center_x, center_y) ==
    IF b.clockwise # 0 THEN b
    ELSE [b EXCEPT !.clockwise =
             clockwise_sign(b.angle,
                            compare_positions(a.x[b.end_atom], a.y[b.end_atom],
                                              center_x, center_y), a.rotate)]

\* the two atoms whose bond is handled on its own
TwoAtoms == [natoms |-> 2, neighbors |-> [a \in {0, 1} |-> <<1 - a>>]]

InitBond == InitWith({TwoAtoms}) /\ args \in BondArgs /\ objs = <<>> /\ result = NoResult

\* Bond(options, start_atom, end_atom, bond_type, stereo)
NewBond ==
    /\ objs = <<>>
    /\ objs' = <<new_Bond(args, 0, 1)>>
    /\ UNCHANGED <<args, molecule_vars, result>>

\* c = b.invert(), for the Bond made last
Invert ==
    /\ objs # <<>>
    /\ Len(objs) < MaxObjs
    /\ objs' = Append(objs, invert(Last(objs)))
    /\ UNCHANGED <<args, molecule_vars, result>>

\* b.is_clockwise(center_x, center_y), for the Bond made last
IsClockwise(center_x, center_y) ==
    /\ objs # <<>>
    /\ objs' = [objs EXCEPT ![Len(objs)] = is_clockwise_xy(@, args, center_x, center_y)]
    /\ UNCHANGED <<args, molecule_vars, result>>

NextBond ==
    \/ NewBond
    \/ Invert
    \/ \E center_x \in Coords, center_y \in Coords : IsClockwise(center_x, center_y)

SpecBond == InitBond /\ [][NextBond]_vars

Next ==
    \/ Parse
    \/ pickFirstLastAtoms
    \/ BuildTree
    \/ MarkTrunk
    \/ \E cross_bonds \in CrossOptions(natoms) : SkipSingleAtom(cross_bonds)
    \/ \E cross_bonds \in CrossOptions(natoms) : process_cross_bonds(cross_bonds)
    \/ scaleBonds
    \/ annotateRings
    \/ Render

Spec == Init /\ [][Next]_vars

\* the construction up to the tree, also on the molecules with a repeated neighbor
InitTree ==
    /\ InitWith(TkMolecules \cup TkRepeatMolecules)
    /\ args = NoArgs /\ objs = <<>> /\ result = NoResult

NextTree ==
    \/ Parse
    \/ pickFirstLastAtoms
    \/ BuildTree

SpecTree == InitTree /\ [][NextTree]_vars

\* the construction of molecules with larger and with fused rings, without
\* options['cross_bond']
\* a toolkit molecule of one ring of n atoms, with what iterateBonds delivers
Cycle(n) ==
    [natoms |-> n,
     neighbors |-> [a \in Atoms(n) |-> <<(a + 1) % n, (a + n - 1) % n>>],
     tkbonds |-> [i \in 1..n |-> <<i - 1, i % n>>]]

\* two rings of three atoms fused at the bond of the atoms 0 and 2
FusedRings ==
    [natoms |-> 4,
     neighbors |-> (0 :> <<1, 3, 2>>) @@ (1 :> <<0, 2>>) @@ (2 :> <<1, 3, 0>>)
                       @@ (3 :> <<2, 0>>),
     tkbonds |-> << <<0, 1>>, <<1, 2>>, <<2, 3>>, <<3, 0>>, <<0, 2>> >>]

\* a ring at the limit of annotateRing, one beyond it, and the fused rings
RingMolecules == {Cycle(RingLimit), Cycle(RingLimit + 1), FusedRings}

InitRings == InitWith(RingMolecules) /\ args = NoArgs /\ objs = <<>> /\ result = NoResult

\* Molecule.__init__ up to connect_fragments, on the bonds as listed
ParseRing == parse_with(tkmol.tkbonds, <<>>)

NextRings ==
    \/ ParseRing
    \/ pickFirstLastAtoms
    \/ BuildTree
    \/ MarkTrunk
    \/ process_cross_bonds(<<>>)
    \/ scaleBonds
    \/ annotateRings
    \/ Render

SpecRings == InitRings /\ [][NextRings]_vars

\* ------------------------------------------------------------------ double bonds
\* Python's None where an angle is expected
NoAngle == 0 - 1

\* list.remove(x) on a list that holds x : the list without the first x
remove(list, x) ==
    LET i == CHOOSE k \in 1..Len(list) : list[k] = x /\ \A j \in 1..(k - 1) : list[j] # x
    IN  SubSeq(list, 1, i - 1) \o SubSeq(list, i + 1, Len(list))

\* Bond._adjoining_angles for a bond of this angle at an atom with these
\* bond_angles (whole degrees, the angle of the bond among them): the pair
\* of the narrowest and the widest angle to another bond, None without one
adjoining(atom_bond_angles, angle, inversion_angle) ==
    LET raw_angles == [i \in 1..Len(atom_bond_angles) |-> atom_bond_angles[i] % 360]
        reference_angle == (angle - inversion_angle) % 360
        others == remove(raw_angles, reference_angle)
        angles == {(others[i] - reference_angle) % 360 : i \in 1..Len(others)}
    IN  IF others = <<>> THEN <<NoAngle, NoAngle>>
        ELSE <<CHOOSE a \in angles : \A c \in angles : a <= c,
               CHOOSE a \in angles : \A c \in angles : a >= c>>

\* Bond.upstream_angles
upstream_angles(a) ==
    LET fl == adjoining(a.start_bond_angles, a.angle, 0)
    IN  [left |-> fl[1], right |-> IF fl[2] # NoAngle THEN 360 - fl[2] ELSE NoAngle]

\* Bond.downstream_angles
downstream_angles(a) ==
    LET fl == adjoining(a.end_bond_angles, a.angle, 180)
    IN  [left |-> IF fl[2] # NoAngle THEN 360 - fl[2] ELSE NoAngle, right |-> fl[1]]

\* Bond.angle_penalty
angle_penalty(angle) == IF angle = NoAngle THEN 0 ELSE (angle - 105) * (angle - 105)

\* a fancy_double that gives equal penalties to the left
tie_side_left(angle) == "left"

\* fancy_double : the side for equal penalties, abs(self.angle - 44.5) < 90
tie_side(angle) == IF Abs(2 * angle - 89) < 180 THEN "left" ELSE "right"

\* fancy_double : both angles of a pair lie in 90..135
in_plain_range(angles) ==
    /\ 90 <= Abs(angles.left) /\ Abs(angles.left) <= 135
    /\ 90 <= Abs(angles.right) /\ Abs(angles.right) <= 135

\* Bond.fancy_double on the bond described by a : "None" or the side of the
\* second stroke (the lengths taken off the stroke are left out)
fancy_double(a) ==
    LET start_angles == upstream_angles(a)
        end_angles == downstream_angles(a)
        left_penalty == angle_penalty(start_angles.left) + angle_penalty(end_angles.left)
        right_penalty == angle_penalty(start_angles.right) + angle_penalty(end_angles.right)
    IN  IF a.clockwise = 0 /\ (a.start_explicit \/ a.end_explicit)
           /\ ( \/ a.start_explicit /\ a.end_explicit
                \/ a.start_explicit
                     /\ (end_angles.left = NoAngle \/ in_plain_range(end_angles))
                \/ ~a.start_explicit /\ a.end_explicit
                     /\ (start_angles.left = NoAngle \/ in_plain_range(start_angles)) )
        THEN "None"
        ELSE IF a.clockwise = 0 - 1 THEN "left"
        ELSE IF a.clockwise = 1 THEN "right"
        ELSE IF left_penalty < right_penalty THEN "left"
        ELSE IF left_penalty > right_penalty THEN "right"
        ELSE tie_side(a.angle)

\* the bond angles tried, and for either atom the angles of its other bonds,
\* counted from the direction of the bond
DoubleBondAngles == {0 - 45, 0, 134, 135, 200}
OtherBondAngles == {<<>>, <<90>>, <<105>>, <<120>>, <<255>>, <<270>>, <<105, 255>>,
                    <<120, 240>>, <<90, 250>>, <<60, 255>>}

\* a double bond between two atoms: its angle and clockwise flag, whether
\* the atoms are drawn explicitly, and the bond_angles of the atoms
DoubleBondArgs ==
    {[angle |-> angle, clockwise |-> cw, start_explicit |-> se, end_explicit |-> ee,
      start_bond_angles |-> <<angle>> \o [i \in 1..Len(so) |-> angle + so[i]],
      end_bond_angles |-> <<angle - 180>> \o [i \in 1..Len(eo) |-> angle + eo[i]]] :
        angle \in DoubleBondAngles, cw \in {0 - 1, 0, 1}, se \in BOOLEAN, ee \in BOOLEAN,
        so \in OtherBondAngles, eo \in OtherBondAngles}

InitDouble ==
    InitWith({TwoAtoms}) /\ args \in DoubleBondArgs /\ objs = <<>> /\ result = NoResult

\* fd = self.fancy_double()
FancyDouble ==
    /\ objs = <<>>
    /\ objs' = <<fancy_double(args)>>
    /\ UNCHANGED <<args, molecule_vars, result>>

NextDouble == FancyDouble

SpecDouble == InitDouble /\ [][NextDouble]_vars

\* ------------------------------------------------------------------ processor.py
\* what a caller hands to process, and what the files, PubChem and the toolkit
\* make of it
AllRequests ==
    [webform : BOOLEAN, warnings : BOOLEAN, empty : BOOLEAN, options_ok : BOOLEAN,
     help : BOOLEAN, version : BOOLEAN, ndata : 0..2, readable : BOOLEAN,
     fetched : BOOLEAN, loads : BOOLEAN, layout_ok : BOOLEAN]

\* the things wrong with a request
Faults(req) ==
    {f \in {"warnings", "empty", "help", "version"} : req[f]}
        \cup {f \in {"options_ok", "readable", "fetched", "loads", "layout_ok"} : ~req[f]}
        \cup (IF req.ndata # 1 THEN {"ndata"} ELSE {})

\* the requests tried: those with at most MaxFaults things wrong
MaxFaults == 2
Requests == {req \in AllRequests : Cardinality(Faults(req)) <= MaxFaults}

\* Processor.parseInputCli : the exception it raises, or "none"
parseInputCli(req) ==
    IF req.empty THEN "HelpError"
    ELSE IF ~req.options_ok THEN "HelpError"
    ELSE IF req.help \/ req.version THEN "HelpError"
    ELSE IF req.ndata # 1 THEN "MCFError"
    ELSE IF ~req.readable THEN "MCFError"
    ELSE "none"

\* Processor.parseInputWeb : the exception it raises, or "none"
parseInputWeb(req) == IF req.warnings THEN "MCFError" ELSE "none"

\* Processor.parseMolecule : the exception it raises, or "none"
parseMolecule(req) ==
    IF ~req.fetched THEN "MCFError"
    ELSE IF ~req.loads THEN "MCFError"
    ELSE IF ~req.layout_ok THEN "IndigoException"
    ELSE "none"

\* Processor.process up to the call of molecule.Molecule
input_error(req) ==
    LET e == IF req.webform THEN parseInputWeb(req) ELSE parseInputCli(req)
    IN  IF e # "none" THEN e ELSE parseMolecule(req)

\* an except clause that catches the anticipated errors only
is_Exception_anticipated(e) == e \in {"HelpError", "MCFError"}

\* except Exception : the exceptions that construction can raise
is_Exception(e) ==
    e \in {"HelpError", "MCFError", "TypeError", "ValueError", "IndigoException"}

\* process : the value returned after p.process() ended with e, or the
\* exception that leaves process
process_result(e) ==
    IF e = "none" THEN <<"True", "molecule">>
    ELSE IF e = "HelpError" THEN <<"False", "message">>
    ELSE IF e = "MCFError" THEN <<"False", "message">>
    ELSE IF is_Exception(e) THEN <<"False", "traceback">>
    ELSE <<"raised", e>>

\* the toolkit molecules that process is run on
MaxProcessAtoms == 3

InitProcess ==
    /\ InitAt("start", {m \in TkMolecules : m.natoms <= MaxProcessAtoms})
    /\ args = NoArgs /\ objs = <<>> /\ result = NoResult

\* Processor.process : parseInputCli or parseInputWeb, then parseMolecule
parse_input(req) ==
    /\ pc = "start"
    /\ error' = input_error(req)
    /\ pc' = IF input_error(req) = "none" THEN "new" ELSE "failed"
    /\ UNCHANGED <<tkmol, natoms, neighbors, bond_angles, bonds, seen_atoms, seen_bonds,
                   entry_atom, exit_atom, root, exit_bond, rendered, bond_vars, result>>

\* process : the try statement around p.process() and the return
Return ==
    /\ pc \in {"rendered", "failed"}
    /\ result' = process_result(error)
    /\ pc' = "returned"
    /\ UNCHANGED <<error, tkmol, natoms, neighbors, bond_angles, bonds, seen_atoms,
                   seen_bonds, entry_atom, exit_atom, root, exit_bond, rendered, bond_vars>>

NextProcess ==
    \/ \E req \in Requests : parse_input(req)
    \/ Next
    \/ Return

SpecProcess == InitProcess /\ [][NextProcess]_vars

\* ------------------------------------------------------------------ properties
\* the nodes of the tree below and including the root, depth first
TreeSeq == treebonds_from(bonds, root)

\* how often node b occurs in the tree
Occurrences(b) == Cardinality({i \in 1..Len(TreeSeq) : TreeSeq[i] = b})

\* the bonded atom pairs, input bonds and links alike, as a < b
BondedPairs == {<<a, b>> \in Pairs(natoms) : BondId(a, b) \in DOMAIN bonds}

\* the link bonds, each once
LinkPairs == {p \in BondedPairs : bonds[BondId(p[1], p[2])].bond_type = "link"}

RECURSIVE ReachableFrom(_, _)
\* the atoms reached from the atoms of S along the neighbor lists nb
ReachableFrom(nb, S) ==
    LET T == S \cup UNION {Range(nb[a]) : a \in S}
    IN  IF T = S THEN S ELSE ReachableFrom(nb, T)

\* the atoms that have an input bond
BondedAtoms(tk) == {a \in Atoms(tk.natoms) : tk.neighbors[a] # <<>>}

\* K: the number of connected components the bonded pairs of the input form
Fragments(tk) ==
    Cardinality({ReachableFrom(tk.neighbors, {a}) : a \in BondedAtoms(tk)})

\* m: the number of atoms without a bond
Orphans(tk) == Cardinality(Atoms(tk.natoms) \ BondedAtoms(tk))

\* C1: after parseTree every atom is the end atom of exactly one tree bond
\* that is not to_phantom (the entry atom that of the root bond), and every
\* tree bond with to_phantom is a leaf that ends at an atom visited before it.
C1_TreeCompleteness ==
    pc = "tree" =>
        /\ bonds[root].end_atom = entry_atom
        /\ \A a \in Atoms(natoms) :
               Cardinality({i \in 1..Len(TreeSeq) :
                               /\ bonds[TreeSeq[i]].end_atom = a
                               /\ ~bonds[TreeSeq[i]].to_phantom}) = 1
        /\ \A i \in 1..Len(TreeSeq) :
               bonds[TreeSeq[i]].to_phantom =>
                   /\ bonds[TreeSeq[i]].descendants = <<>>
                   /\ \E j \in 1..(i - 1) :
                          /\ bonds[TreeSeq[j]].end_atom = bonds[TreeSeq[i]].end_atom
                          /\ ~bonds[TreeSeq[j]].to_phantom

\* a tree over all MaxAtoms atoms with a ring closure and a fragment link in it
C1_Witness ==
    /\ pc = "tree"
    /\ natoms = MaxAtoms
    /\ \E i \in 1..Len(TreeSeq) : bonds[TreeSeq[i]].to_phantom
    /\ \E i \in 1..Len(TreeSeq) : bonds[TreeSeq[i]].bond_type = "link"

\* C2: after parseTree, of the two directed keys of every bonded pair exactly
\* one is in seen_bonds, its Bond occurs exactly once in the tree, and the
\* Bond of the opposite key has no parent and no descendants; also when a
\* neighbor list names an atom twice.
C2_OneDirectionAttached ==
    pc = "tree" =>
        \A p \in BondedPairs :
            LET fw == <<p[1], p[2]>> \in seen_bonds
                bw == <<p[2], p[1]>> \in seen_bonds
                used == IF fw THEN BondId(p[1], p[2]) ELSE BondId(p[2], p[1])
                other == IF fw THEN BondId(p[2], p[1]) ELSE BondId(p[1], p[2])
            IN  /\ fw # bw
                /\ Occurrences(used) = 1
                /\ bonds[other].parent = NoBond
                /\ bonds[other].descendants = <<>>

\* a tree with a ring closure, built from a neighbor list that repeats an atom
C2_Witness ==
    /\ pc = "tree"
    /\ \E a \in Atoms(natoms) :
           Len(tkmol.neighbors[a]) > Cardinality(Range(tkmol.neighbors[a]))
    /\ \E i \in 1..Len(TreeSeq) : bonds[TreeSeq[i]].to_phantom

\* C3: connect_fragments makes exactly (K - 1) + m link bonds, each stored in
\* both directions and added to both neighbor lists, after which every atom
\* reaches every other along the neighbor lists, and parseTree sees all atoms.
C3_FragmentLinks ==
    /\ pc = "connected" =>
           /\ Cardinality(LinkPairs) = (Fragments(tkmol) - 1) + Orphans(tkmol)
           /\ \A p \in BondedPairs :
                  /\ BondId(p[2], p[1]) \in DOMAIN bonds
                  /\ bonds[BondId(p[2], p[1])].bond_type = bonds[BondId(p[1], p[2])].bond_type
           /\ \A a \in Atoms(natoms) :
                  /\ Len(neighbors[a]) = Len(tkmol.neighbors[a])
                        + Cardinality({p \in LinkPairs : a = p[1] \/ a = p[2]})
                  /\ \A p \in LinkPairs :
                         (a = p[1] => p[2] \in Range(neighbors[a]))
                             /\ (a = p[2] => p[1] \in Range(neighbors[a]))
           /\ \A a \in Atoms(natoms) : ReachableFrom(neighbors, {a}) = Atoms(natoms)
    /\ pc = "tree" => seen_atoms = Atoms(natoms)

\* two fragments joined by one link, all of MaxAtoms atoms seen by parseTree
C3_Witness ==
    /\ pc = "tree"
    /\ natoms = MaxAtoms
    /\ Fragments(tkmol) = 2
    /\ Cardinality(LinkPairs) = 1
    /\ seen_atoms = Atoms(natoms)

RECURSIVE ParentChain(_, _)
\* the bonds from below the root down to b, along the parent pointers
ParentChain(bs, b) ==
    IF b = NoBond \/ bs[b].parent = NoBond THEN <<>>
    ELSE Append(ParentChain(bs, bs[b].parent), b)

\* the tree bonds default_exit_bond may pick
ExitCandidates == {b \in Range(treebonds(bonds, root)) : ~bonds[b].to_phantom}

\* (depth below the entry atom, number of descendants) of tree bond b
ExitScore(b) == <<Len(ParentChain(bonds, b)), Len(bonds[b].descendants)>>

\* x is lexicographically at most y
LexLeq(x, y) == x[1] < y[1] \/ (x[1] = y[1] /\ x[2] <= y[2])

\* the step of Molecule.__init__ that picks the default exit bond
DefaultExitStep == pc = "tree" /\ pc' = "trunk" /\ exit_atom = NoAtom

\* C4: when no exit atom is given, the bond default_exit_bond returns has the
\* lexicographically greatest (depth, number of descendants) of all tree
\* bonds that are not to_phantom.
C4_DefaultExitLexMax ==
    [][DefaultExitStep =>
           \A b \in ExitCandidates : LexLeq(ExitScore(b), ExitScore(exit_bond'))
    ]_vars

\* the weaker statement the code meets: the default exit bond has the
\* greatest depth, whatever its number of descendants
C4_DefaultExitDeepest ==
    [][DefaultExitStep =>
           \A b \in ExitCandidates : ExitScore(b)[1] <= ExitScore(exit_bond')[1]
    ]_vars

\* the number of input bonds at atom a
Degree(tk, a) == Cardinality(Range(tk.neighbors[a]))

\* the input bonds form one unbranched chain over all atoms
IsChain(tk) ==
    /\ tk.natoms >= 2
    /\ Cardinality(TkEdges(tk)) = tk.natoms - 1
    /\ \A a \in Atoms(tk.natoms) : Degree(tk, a) \in {1, 2}
    /\ \A a \in Atoms(tk.natoms) : ReachableFrom(tk.neighbors, {a}) = Atoms(tk.natoms)

\* the two ends of the chain
ChainEnds(tk) == {a \in Atoms(tk.natoms) : Degree(tk, a) = 1}

\* C5: for an unbranched chain of N >= 2 atoms entered at one end with no
\* exit atom given, the default exit bond ends at the opposite end of the
\* chain and every bond of the chain is marked is_trunk.
C5_ChainExitAtFarEnd ==
    [][(DefaultExitStep /\ IsChain(tkmol) /\ entry_atom \in ChainEnds(tkmol)) =>
           /\ exit_atom' \in ChainEnds(tkmol)
           /\ natoms > 1 => exit_atom' # entry_atom
           /\ bonds'[exit_bond'].end_atom = exit_atom'
           /\ \A p \in BondedPairs :
                  \/ <<p[1], p[2]>> \in seen_bonds /\ bonds'[BondId(p[1], p[2])].is_trunk
                  \/ <<p[2], p[1]>> \in seen_bonds /\ bonds'[BondId(p[2], p[1])].is_trunk
    ]_vars

\* a chain of MaxAtoms atoms entered at one end, all of it trunk up to the
\* other end, an atom no exit_atom option of the model names
C5_Witness ==
    /\ pc = "trunk"
    /\ natoms = MaxAtoms
    /\ IsChain(tkmol)
    /\ entry_atom \in ChainEnds(tkmol)
    /\ exit_atom \in ChainEnds(tkmol) \ {entry_atom}
    /\ exit_atom >= MaxAtomNumber
    /\ \A b \in Range(treebonds(bonds, root)) : bonds[b].is_trunk

\* the tree nodes with is_trunk set
TrunkFlagged == {b \in Range(TreeSeq) : bonds[b].is_trunk}

\* no tree node has two children with is_trunk set
OneTrunkChild ==
    \A b \in Range(TreeSeq) :
        LET d == bonds[b].descendants
        IN  Cardinality({i \in 1..Len(d) : bonds[d[i]].is_trunk}) <= 1

\* C6: in the final tree of a molecule of more than one atom the tree bonds
\* with is_trunk are exactly the parent chain of exit_bond below the root,
\* none when the exit atom is the entry atom, and no node has two of them
\* as children.
C6_TrunkIsExitChain ==
    (pc = "annotated" /\ natoms > 1) =>
        /\ TrunkFlagged = Range(ParentChain(bonds, exit_bond))
        /\ exit_atom = entry_atom => TrunkFlagged = {}
        /\ OneTrunkChild

\* what holds of the trunk flags until process_cross_bonds clones a bond
C6_TrunkIsExitChainBeforeCross ==
    pc = "trunk" =>
        /\ TrunkFlagged = Range(ParentChain(bonds, exit_bond))
        /\ exit_atom = entry_atom => TrunkFlagged = {}
        /\ OneTrunkChild

\* the number of brackets open before line i of out
BracketDepth(out, i) ==
    Cardinality({j \in 1..(i - 1) : out[j].kind = "("})
        - Cardinality({j \in 1..(i - 1) : out[j].kind = ")"})

\* the lines of out that stand outside every bracket pair and render a node
OuterLines(out) == {i \in 1..Len(out) : out[i].kind = "bond" /\ BracketDepth(out, i) = 0}

\* C7: render emits the root and the bonds of the parent chain of exit_bond at
\* level 0 outside every bracket pair, in the order from entry to exit, and
\* every other tree node between a '(' and its matching ')'.
C7_TrunkOutsideBrackets ==
    [][(pc = "annotated" /\ pc' = "rendered") =>
           LET out == rendered'
               trunk == <<root>> \o ParentChain(bonds, exit_bond)
           IN  /\ \A i \in 1..(Len(out) + 1) : BracketDepth(out, i) >= 0
               /\ BracketDepth(out, Len(out) + 1) = 0
               /\ Cardinality(OuterLines(out)) = Len(trunk)
               /\ \A k \in 1..Len(trunk) :
                      \E i \in OuterLines(out) :
                          /\ out[i].node = trunk[k]
                          /\ out[i].level = 0
                          /\ Cardinality({j \in OuterLines(out) : j < i}) = k - 1
               /\ \A b \in Range(TreeSeq) \ Range(trunk) :
                      /\ \E i \in 1..Len(out) : out[i].kind = "bond" /\ out[i].node = b
                      /\ \A i \in 1..Len(out) :
                             (out[i].kind = "bond" /\ out[i].node = b) =>
                                 BracketDepth(out, i) >= 1
    ]_vars

\* a rendered molecule with a trunk of three bonds, a branch off the trunk
\* and a branch below the exit bond
C7_Witness ==
    /\ pc = "rendered"
    /\ Len(ParentChain(bonds, exit_bond)) >= 2
    /\ \E i \in 1..Len(rendered) :
           /\ rendered[i].kind = "bond"
           /\ BracketDepth(rendered, i) >= 1
           /\ rendered[i].node # NoBond
           /\ bonds[rendered[i].node].parent # exit_bond
           /\ bonds[rendered[i].node].parent \in Range(ParentChain(bonds, exit_bond))
    /\ \E i \in 1..Len(rendered) :
           /\ rendered[i].kind = "bond"
           /\ bonds[rendered[i].node].parent = exit_bond

\* the declared pair names no bond of the tree
MissingPair(pair) == cross_tree_bond(seen_bonds, pair[1] - 1, pair[2] - 1) = NoBond

\* C8: when a declared cross-bond pair has neither direction in seen_bonds,
\* construction ends with MCFError and nothing is rendered.
C8_MissingCrossBondFatal ==
    [][(pc = "tree" \/ pc = "trunk") =>
           \A cb \in CrossOptions(natoms) :
               ((\E k \in 1..Len(cb) : MissingPair(cb[k]))
                    /\ (process_cross_bonds(cb) \/ SkipSingleAtom(cb)))
                   => (pc' = "failed" /\ error' = "MCFError" /\ rendered' = <<>>)
    ]_vars

\* the same for molecules of more than one atom and a single declared pair
C8_MissingCrossBondFatalBeyondOneAtom ==
    [][pc = "trunk" =>
           \A cb \in CrossOptions(natoms) :
               (Len(cb) = 1 /\ MissingPair(cb[1]) /\ process_cross_bonds(cb))
                   => (pc' = "failed" /\ error' = "MCFError" /\ rendered' = <<>>)
    ]_vars

\* the tree bond of the one declared pair of cb
DeclaredBond(cb) == cross_tree_bond(seen_bonds, cb[1][1] - 1, cb[1][2] - 1)

\* cb declares one pair, whose tree bond is the last child of exit_bond
DeclaresLastChild(cb) ==
    /\ Len(cb) = 1
    /\ DeclaredBond(cb) # NoBond
    /\ is_last_of_exit(bonds, exit_bond, DeclaredBond(cb))

\* cb declares one pair, whose tree bond is not the last child of exit_bond
DeclaresOther(cb) ==
    /\ Len(cb) = 1
    /\ DeclaredBond(cb) # NoBond
    /\ ~is_last_of_exit(bonds, exit_bond, DeclaredBond(cb))

\* the bond is tagged in place and nothing else changes
TaggedInPlace(bond) ==
    /\ DOMAIN bonds' = DOMAIN bonds
    /\ \A b \in DOMAIN bonds \ {bond} : bonds'[b] = bonds[b]
    /\ bonds'[bond] = [bonds[bond] EXCEPT !.tikz_styles = @ \cup {"cross"},
                                          !.is_last = TRUE]
    /\ Len(treebonds_from(bonds', root)) = Len(TreeSeq)

\* C9: when the tree bond of a declared cross-bond pair is the last element
\* of exit_bond.descendants, process_cross_bonds only adds the cross style
\* to that bond and sets its is_last: type, parent and descendants stay, no
\* node is created.
C9_LastChildTaggedInPlace ==
    [][pc = "trunk" =>
           \A cb \in CrossOptions(natoms) :
               (DeclaresLastChild(cb) /\ process_cross_bonds(cb))
                   => (pc' = "crossed" /\ TaggedInPlace(DeclaredBond(cb)))
    ]_vars

\* the same whenever set_cross does not raise
C9_LastChildTaggedUnlessRaised ==
    [][pc = "trunk" =>
           \A cb \in CrossOptions(natoms) :
               (DeclaresLastChild(cb) /\ process_cross_bonds(cb) /\ pc' = "crossed")
                   => TaggedInPlace(DeclaredBond(cb))
    ]_vars

\* node c is a drawn copy of bond: cross style, to_phantom, no descendants
IsCrossCopy(c, bond) ==
    /\ c \notin DOMAIN bonds
    /\ bonds'[c].start_atom = bonds[bond].start_atom
    /\ bonds'[c].end_atom = bonds[bond].end_atom
    /\ "cross" \in bonds'[c].tikz_styles
    /\ bonds'[c].to_phantom
    /\ bonds'[c].descendants = <<>>

\* the original stays where it is and one branch with the copy is appended
\* to the descendants of exit_bond
SplicedBelowExit(bond) ==
    LET added == Last(bonds'[exit_bond].descendants)
        before(b) == IF b = exit_bond THEN Append(bonds[b].descendants, added)
                     ELSE bonds[b].descendants
    IN  /\ bonds'[exit_bond].descendants # <<>>
        /\ \A b \in DOMAIN bonds :
               /\ bonds'[b].descendants = before(b)
               /\ bonds'[b].parent = bonds[b].parent
        /\ bonds'[added].parent = exit_bond
        /\ bonds'[added].start_atom = bonds[exit_bond].end_atom
        /\ IF bonds[bond].start_atom = exit_atom
           THEN IsCrossCopy(added, bond)
           ELSE /\ added \notin DOMAIN bonds
                /\ bonds'[added].bond_type = "link"
                /\ bonds'[added].to_phantom
                /\ bonds'[added].start_atom = exit_atom
                /\ bonds'[added].end_atom = bonds[bond].start_atom
                /\ Len(bonds'[added].descendants) = 1
                /\ IsCrossCopy(bonds'[added].descendants[1], bond)
                /\ bonds'[bonds'[added].descendants[1]].parent = added

\* C10: for a declared cross bond that is not the last child of exit_bond,
\* process_cross_bonds leaves the original in place with its descendants and
\* appends one branch to exit_bond.descendants: the copy itself when it
\* starts at the exit atom, else a link to_phantom bond from the exit atom to
\* the copy's start atom with the copy as its only descendant; parents and
\* start atoms in the branch fit.
C10_CopySplicedBelowExit ==
    [][pc = "trunk" =>
           \A cb \in CrossOptions(natoms) :
               (DeclaresOther(cb) /\ process_cross_bonds(cb))
                   => (pc' = "crossed" /\ SplicedBelowExit(DeclaredBond(cb)))
    ]_vars

\* the same whenever set_cross does not raise
C10_CopySplicedUnlessRaised ==
    [][pc = "trunk" =>
           \A cb \in CrossOptions(natoms) :
               (DeclaresOther(cb) /\ process_cross_bonds(cb) /\ pc' = "crossed")
                   => SplicedBelowExit(DeclaredBond(cb))
    ]_vars

\* the tree bonds process_cross_bonds has demoted: those it made a copy of
DemotedBonds == {BondId(c[2], c[3]) : c \in {x \in DOMAIN bonds : x[1] = "clone"}}

\* C11: from process_cross_bonds on, through scaleBonds and annotateRings up
\* to and including the render pass, the original tree bond of a declared
\* cross bond keeps bond_type "link" and an empty style set.
C11_DemotedStaysLink ==
    pc \in {"crossed", "scaled", "annotated", "rendered"} =>
        \A b \in DemotedBonds :
            bonds[b].bond_type = "link" /\ bonds[b].tikz_styles = {}

\* the same up to the call of annotateRings
C11_DemotedStaysLinkUntilRings ==
    pc \in {"crossed", "scaled"} =>
        \A b \in DemotedBonds :
            bonds[b].bond_type = "link" /\ bonds[b].tikz_styles = {}

\* the option names a number outside 1..n
OutOfRange(n, opt) == \E k \in opt : k < 1 \/ k > n

\* C12: with entry_atom or exit_atom set to a number outside 1..N, 0 and
\* negative numbers included, construction raises MCFError before parseTree:
\* seen_atoms and seen_bonds are empty, there is no root bond and nothing is
\* rendered.
C12_InvalidAtomNumberFatal ==
    [][pc = "connected" =>
           \A entry_opt \in AtomOptions(natoms), exit_opt \in AtomOptions(natoms) :
               ((OutOfRange(natoms, entry_opt) \/ OutOfRange(natoms, exit_opt))
                    /\ pick_atoms(entry_opt, exit_opt))
                   => /\ pc' = "failed"
                      /\ error' = "MCFError"
                      /\ seen_atoms' = {}
                      /\ seen_bonds' = {}
                      /\ root' = NoBond
                      /\ rendered' = <<>>
    ]_vars

\* a molecule of MaxAtoms atoms whose construction ended in pickFirstLastAtoms
C12_Witness ==
    /\ pc = "failed"
    /\ error = "MCFError"
    /\ natoms = MaxAtoms
    /\ root = NoBond
    /\ seen_atoms = {}

\* the first Bond made lies along the displacement (xdiff, ydiff)
Displacement ==
    [xdiff |-> args.x[1] - args.x[0], ydiff |-> args.y[1] - args.y[0]]

\* the angle that compare_positions returned to Bond.__init__
ReturnedAngle == objs[1].angle - args.rotate

\* C19: the angle that compare_positions returns lies in [0,360) and in the
\* quadrant of the displacement: [0,90] for xdiff>0, ydiff>=0; (90,180] for
\* xdiff<0, ydiff>=0; (180,270) for xdiff<0, ydiff<0; (270,360) for xdiff>0,
\* ydiff<0; exactly 90 (ydiff>=0) or 270 (ydiff<0) when xdiff = 0.
C19_AngleInQuadrant ==
    objs # <<>> =>
        LET xdiff == Displacement.xdiff
            ydiff == Displacement.ydiff
            angle == ReturnedAngle
        IN  /\ 0 <= angle /\ angle < 360
            /\ (xdiff > 0 /\ ydiff >= 0) => (0 <= angle /\ angle <= 90)
            /\ (xdiff < 0 /\ ydiff >= 0) => (90 < angle /\ angle <= 180)
            /\ (xdiff < 0 /\ ydiff < 0) => (180 < angle /\ angle < 270)
            /\ (xdiff > 0 /\ ydiff < 0) => (270 < angle /\ angle < 360)
            /\ (xdiff = 0 /\ ydiff >= 0) => angle = 90
            /\ (xdiff = 0 /\ ydiff < 0) => angle = 270

\* the same but for the displacements to the right and down
C19_AngleInQuadrantButBelowRight ==
    (objs # <<>> /\ ~(Displacement.xdiff > 0 /\ Displacement.ydiff < 0)) =>
        LET xdiff == Displacement.xdiff
            ydiff == Displacement.ydiff
            angle == ReturnedAngle
        IN  /\ 0 <= angle /\ angle < 360
            /\ (xdiff > 0 /\ ydiff >= 0) => (0 <= angle /\ angle <= 90)
            /\ (xdiff < 0 /\ ydiff >= 0) => (90 < angle /\ angle <= 180)
            /\ (xdiff < 0 /\ ydiff < 0) => (180 < angle /\ angle < 270)
            /\ (xdiff = 0 /\ ydiff >= 0) => angle = 90
            /\ (xdiff = 0 /\ ydiff < 0) => angle = 270

\* the counterpart of a wedge type drawn from the other end
Counterpart(type) ==
    CASE type = "upto" -> "upfrom"
      [] type = "upfrom" -> "upto"
      [] type = "downto" -> "downfrom"
      [] type = "downfrom" -> "downto"
      [] OTHER -> type

\* C18: invert swaps each wedge type with its counterpart (upto with upfrom,
\* downto with downfrom) and leaves every other type; hence invert(invert(b))
\* has the bond type of b.
C18_InvertSwapsWedges ==
    /\ \A i \in 1..(Len(objs) - 1) : objs[i + 1].bond_type = Counterpart(objs[i].bond_type)
    /\ Len(objs) >= 3 => objs[3].bond_type = objs[1].bond_type

\* what one invert does to the type of a Bond fresh from Bond.__init__
C18_FirstInvertSwapsWedges ==
    Len(objs) >= 2 => objs[2].bond_type = Counterpart(objs[1].bond_type)

\* C17: invert(b) has the start and end of b swapped and the angle
\* (b.angle + 180) mod 360, and does not modify b; invert(invert(b)) has the
\* start and end of b and an angle congruent to that of b modulo 360.
C17_InvertTwice ==
    [][Invert =>
         LET b == Last(objs)
             c == Last(objs')
         IN  /\ SubSeq(objs', 1, Len(objs)) = objs
             /\ c.start_atom = b.end_atom
             /\ c.end_atom = b.start_atom
             /\ c.angle = (b.angle + 180) % 360
             /\ Len(objs') = 3 =>
                   /\ objs'[3].start_atom = objs'[1].start_atom
                   /\ objs'[3].end_atom = objs'[1].end_atom
                   /\ (objs'[3].angle - objs'[1].angle) % 360 = 0
    ]_vars

C17_Witness ==
    /\ Len(objs) = 3
    /\ objs[1].angle > 360
    /\ objs[3].angle # objs[1].angle

\* the stereo flag that the flips leave
FlippedStereo ==
    IF args.stereo \in {Indigo_UP, Indigo_DOWN} /\ args.flip_horizontal # args.flip_vertical
    THEN (IF args.stereo = Indigo_UP THEN Indigo_DOWN ELSE Indigo_UP)
    ELSE args.stereo

\* the type of a bond order
OrderType(order) ==
    CASE order = 1 -> "single"
      [] order = 2 -> "double"
      [] order = 3 -> "triple"
      [] order = 4 -> "aromatic"

\* C20: Bond construction exchanges up and down iff exactly one of
\* flip_horizontal and flip_vertical is set; a resulting up, down or either
\* gives the type upto, downto or either whatever the bond order; otherwise
\* the type is that of the bond order (1 single, 2 double, 3 triple,
\* 4 aromatic).
C20_TypeFromStereoAndOrder ==
    objs # <<>> =>
        objs[1].bond_type =
            CASE FlippedStereo = Indigo_UP -> "upto"
              [] FlippedStereo = Indigo_DOWN -> "downto"
              [] FlippedStereo = Indigo_EITHER -> "either"
              [] OTHER -> OrderType(args.bond_type)

\* the same for the bond orders 1, 2 and 3
C20_TypeFromStereoAndOrderBelowFour ==
    (objs # <<>> /\ args.bond_type < 4) =>
        objs[1].bond_type =
            CASE FlippedStereo = Indigo_UP -> "upto"
              [] FlippedStereo = Indigo_DOWN -> "downto"
              [] FlippedStereo = Indigo_EITHER -> "either"
              [] OTHER -> OrderType(args.bond_type)

\* C16: is_clockwise on a bond with clockwise = 0 sets it to 1 if ((angle from
\* the end atom to the center + rotate) - bond angle) mod 360 > 180 and to -1
\* otherwise; on a bond with clockwise set, a call with any center leaves the
\* flag as it is.
C16_ClockwiseAssignedOnce ==
    [][\A center_x, center_y \in Coords :
          IsClockwise(center_x, center_y) =>
              LET b == Last(objs)
                  after == objs'[Len(objs)].clockwise
                  center_angle == compare_positions(args.x[b.end_atom], args.y[b.end_atom],
                                                    center_x, center_y)
              IN  IF b.clockwise = 0
                  THEN /\ after # 0
                       /\ after = IF ((center_angle + args.rotate) - b.angle) % 360 > 180
                                  THEN 1 ELSE 0 - 1
                  ELSE after = b.clockwise
    ]_vars

C16_Witness ==
    /\ Len(objs) = 1
    /\ objs[1].clockwise = 1
    /\ args.rotate # 0

\* the k-th ring annotated has its circle: an AromaticRingBond made for it
Decorated(bs, k) == \E id \in DOMAIN bs : id[1] = "arb" /\ id[4] = k

\* the spread (max - min) / max of a measure is at most 5%
WithinFivePercent(min, max) == 100 * (max - min) <= 5 * max

\* the condition of the circle: aromatic, both spreads within 5%, option on
CircleCondition(r, aromatic_circles) ==
    /\ r.is_aromatic
    /\ WithinFivePercent(r.shape.bl_min, r.shape.bl_max)
    /\ WithinFivePercent(r.shape.cd_min, r.shape.cd_max)
    /\ aromatic_circles

\* every bond of the ring r carries a clockwise tag
AllTagged(bs, r) == \A c \in r.ring : bs[getBond(seen_bonds, c)].clockwise # 0

\* C13: for every ring the toolkit reports, annotateRing decorates the ring
\* with a circle iff the ring is aromatic, its bond-length spread and its
\* center-distance spread are both <= 5% and aromatic_circles is on; in every
\* other case each bond of the ring has a non-zero clockwise tag afterwards.
C13_CircleIffAromaticSymmetric ==
    [][pc = "scaled" =>
         \A plan \in RingPlans(tkmol) :
             annotate_rings(plan) =>
                 \A k \in 1..Len(plan.rings) :
                     /\ Decorated(bonds', k)
                            <=> CircleCondition(plan.rings[k], plan.aromatic_circles)
                     /\ ~CircleCondition(plan.rings[k], plan.aromatic_circles)
                            => AllTagged(bonds', plan.rings[k])
    ]_vars

\* the same for the rings of at most 8 bonds
C13_CircleIffAromaticSymmetricUpToLimit ==
    [][pc = "scaled" =>
         \A plan \in RingPlans(tkmol) :
             annotate_rings(plan) =>
                 \A k \in 1..Len(plan.rings) :
                     Cardinality(plan.rings[k].ring) <= 8 =>
                         /\ Decorated(bonds', k)
                                <=> CircleCondition(plan.rings[k], plan.aromatic_circles)
                         /\ ~CircleCondition(plan.rings[k], plan.aromatic_circles)
                                => AllTagged(bonds', plan.rings[k])
    ]_vars

\* a ring of 8 atoms with its circle
C13_Witness ==
    /\ pc = "annotated"
    /\ natoms = 8
    /\ Decorated(bonds, 1)

\* a ring of 8 atoms with its tags
C13_WitnessTagged ==
    /\ pc = "annotated"
    /\ natoms = 8
    /\ \A b \in {x \in DOMAIN bonds : x[1] = "bond" /\ <<x[2], x[3]>> \in seen_bonds} :
           bonds[b].clockwise # 0

\* the bonds of the k-th ring of a plan that lie in no other ring of it
OwnBonds(plan, k) ==
    {c \in plan.rings[k].ring :
        \A j \in 1..Len(plan.rings) : j # k => c \notin plan.rings[j].ring}

\* C14: annotateRing on a ring of more than 8 bonds changes nothing: no bond
\* of the ring is retyped or gets a clockwise flag, no AromaticRingBond is
\* added and no angle is appended to the bond_angles of an atom.
C14_LargeRingUntouched ==
    [][pc = "scaled" =>
         \A plan \in RingPlans(tkmol) :
             annotate_rings(plan) =>
                 \A k \in 1..Len(plan.rings) :
                     Cardinality(plan.rings[k].ring) > 8 =>
                         /\ ~Decorated(bonds', k)
                         /\ \A a \in DOMAIN bond_angles' : <<a, 0 - k>> \notin bond_angles'[a]
                         /\ \A c \in OwnBonds(plan, k) :
                                bonds'[getBond(seen_bonds, c)] = bonds[getBond(seen_bonds, c)]
    ]_vars

\* a ring of more than 8 atoms after annotateRings, no bond of it tagged
C14_Witness ==
    /\ pc = "annotated"
    /\ natoms > 8
    /\ \A b \in DOMAIN bonds : bonds[b].clockwise = 0 /\ bonds[b].bond_type # "aromatic"

\* C15: annotateRings takes every aromatic ring before any ring that is not
\* aromatic; so a bond shared by an aromatic ring drawn without a circle and a
\* ring that is not aromatic (both of at most 8 bonds) has the clockwise flag
\* computed from the center of the aromatic ring.
C15_AromaticRingsFirst ==
    [][pc = "scaled" =>
         \A plan \in RingPlans(tkmol) :
             annotate_rings(plan) =>
                 \A i, j \in 1..Len(plan.rings) :
                     (plan.rings[i].is_aromatic /\ ~plan.rings[j].is_aromatic) =>
                         /\ i < j
                         /\ ( /\ ~CircleCondition(plan.rings[i], plan.aromatic_circles)
                              /\ Cardinality(plan.rings[i].ring) <= 8
                              /\ Cardinality(plan.rings[j].ring) <= 8 )
                            => \A c \in plan.rings[i].ring \cap plan.rings[j].ring :
                                   bonds'[getBond(seen_bonds, c)].clockwise = i
    ]_vars

\* the fused rings, the shared bond tagged from the first ring annotated and
\* another bond from the second
C15_Witness ==
    /\ pc = "annotated"
    /\ tkmol = FusedRings
    /\ bonds[getBond(seen_bonds, <<0, 2>>)].clockwise = 1
    /\ \E b \in DOMAIN bonds : bonds[b].clockwise = 2

\* len(atom.neighbors), link-bond neighbors included
NeighborCount(a) == Len(neighbors[a])

\* C21: without an entry_atom option the entry atom has the minimum neighbor
\* count over all atoms (counted after connect_fragments) and is the first
\* such atom in enumeration order; with a valid entry_atom = k it is the atom
\* of index k - 1.
C21_EntryAtomChoice ==
    [][pc = "connected" =>
           \A entry_opt \in AtomOptions(natoms), exit_opt \in AtomOptions(natoms) :
               (pick_atoms(entry_opt, exit_opt) /\ pc' = "picked") =>
                   IF entry_opt = {}
                   THEN /\ \A b \in Atoms(natoms) :
                               NeighborCount(entry_atom') <= NeighborCount(b)
                        /\ \A b \in Atoms(natoms) :
                               NeighborCount(b) = NeighborCount(entry_atom')
                                   => entry_atom' <= b
                   ELSE \A k \in entry_opt : entry_atom' = k - 1
    ]_vars

\* an entry atom that is not the first atom, with fewer neighbors than every
\* atom before it and a link among its neighbors' bonds
C21_Witness ==
    /\ pc = "picked"
    /\ entry_atom > 0
    /\ \A b \in 0..(entry_atom - 1) : NeighborCount(entry_atom) < NeighborCount(b)
    /\ \E b \in DOMAIN bonds : bonds[b].bond_type = "link"

\* a request that the claim names as refused: help or version asked for on
\* the command line, no data item or more than one, or data that the toolkit
\* does not load
Refused(req) ==
    \/ ~req.webform /\ (req.help \/ req.version)
    \/ ~req.webform /\ req.ndata # 1
    \/ ~req.loads

CrossStyled(bond) ==
    \E b \in DOMAIN bonds' :
        /\ b = bond \/ (b[1] = "clone" /\ b[2] = bond[2] /\ b[3] = bond[3])
        /\ "cross" \in bonds'[b].tikz_styles

\* C24: set_cross on any tree-attached bond completes and leaves 'cross' in
\* the style set of the bond (with bgstart >= 10 and bgend >= 10), also for a
\* bond whose start atom or end atom has no other bond, where both adjoining
\* angles are None.
C24_SetCrossCompletes ==
    [][pc = "trunk" =>
           \A cb \in CrossOptions(natoms) :
               (Len(cb) = 1 /\ DeclaredBond(cb) # NoBond /\ process_cross_bonds(cb))
                   => (pc' = "crossed" /\ error' = "none" /\ CrossStyled(DeclaredBond(cb)))
    ]_vars

\* the same for a bond that is no link and whose two atoms both have another
\* bond angle
C24_SetCrossCompletesBetweenBonds ==
    [][pc = "trunk" =>
           \A cb \in CrossOptions(natoms) :
               ( /\ Len(cb) = 1
                 /\ DeclaredBond(cb) # NoBond
                 /\ bonds[DeclaredBond(cb)].bond_type # "link"
                 /\ Cardinality(bond_angles[bonds[DeclaredBond(cb)].start_atom]) >= 2
                 /\ Cardinality(bond_angles[bonds[DeclaredBond(cb)].end_atom]) >= 2
                 /\ process_cross_bonds(cb) )
                   => (pc' = "crossed" /\ error' = "none" /\ CrossStyled(DeclaredBond(cb)))
    ]_vars

\* the penalty of a side: the sum of (angle - 105)^2 over its upstream and
\* its downstream adjoining angle, an undefined angle counting 0
SidePenalty(side) ==
    LET up == upstream_angles(args)[side]
        down == downstream_angles(args)[side]
        p(x) == IF x = NoAngle THEN 0 ELSE (x - 105) * (x - 105)
    IN  p(up) + p(down)

\* C23: whenever fancy_double returns a side, the side is right for
\* clockwise = 1 and left for clockwise = -1 (a ring bond never gives None);
\* for clockwise = 0 it is the side of the strictly smaller penalty, and for
\* equal penalties left iff |bond angle - 44.5| < 90, else right.
C23_SideOfSecondStroke ==
    objs # <<>> =>
        /\ args.clockwise # 0 => objs[1] # "None"
        /\ objs[1] # "None" =>
              objs[1] = IF args.clockwise = 1 THEN "right"
                        ELSE IF args.clockwise = 0 - 1 THEN "left"
                        ELSE IF SidePenalty("left") < SidePenalty("right") THEN "left"
                        ELSE IF SidePenalty("right") < SidePenalty("left") THEN "right"
                        ELSE IF 2 * args.angle - 89 < 180 /\ 89 - 2 * args.angle < 180
                        THEN "left" ELSE "right"

\* equal penalties on a bond outside the 90 degrees around 44.5
C23_Witness ==
    /\ objs = <<"right">>
    /\ args.clockwise = 0
    /\ SidePenalty("left") = SidePenalty("right")
    /\ SidePenalty("left") > 0

RECURSIVE AttachedFrom(_, _, _)
\* the bonds from end to the neighbors nb[i..] that parseTree went along:
\* each neighbor at its first place in the list, the atom arrived from left out
AttachedFrom(start, end, i) ==
    LET nb == neighbors[end]
    IN  IF i > Len(nb) THEN <<>>
        ELSE IF /\ nb[i] # start
                /\ <<end, nb[i]>> \in seen_bonds
                /\ \A j \in 1..(i - 1) : nb[j] # nb[i]
        THEN <<BondId(end, nb[i])>> \o AttachedFrom(start, end, i + 1)
        ELSE AttachedFrom(start, end, i + 1)

\* C25: after parseTree the descendants of every tree bond follow the
\* neighbor list of its end atom: they are, in that order, exactly the bonds
\* to the neighbors (other than the atom arrived from) whose atom pair was
\* not yet visited in either direction when the neighbor was reached, each
\* with the bond as its parent.
C25_DescendantsInNeighborOrder ==
    pc = "tree" =>
        \A b \in Range(TreeSeq) :
            /\ bonds[b].descendants =
                   IF bonds[b].to_phantom THEN <<>>
                   ELSE AttachedFrom(bonds[b].start_atom, bonds[b].end_atom, 1)
            /\ \A d \in Range(bonds[b].descendants) : bonds[d].parent = b

\* a bond with two children that stand against the order of the atom
\* indexes, in a tree with a ring closure
C25_Witness ==
    /\ pc = "tree"
    /\ \E b \in Range(TreeSeq) :
           /\ Len(bonds[b].descendants) >= 2
           /\ bonds[b].descendants[1][3] > bonds[b].descendants[2][3]
    /\ \E b \in Range(TreeSeq) : bonds[b].to_phantom

\* the bonds of the tree that carry is_last
LastFlagged == {b \in Range(TreeSeq) : bonds[b].is_last}

\* C26: in the final tree at render time at most one bond has is_last, and
\* a bond with is_last is the last element of exit_bond.descendants, for
\* every declared cross bond and every ring annotation that follows.
C26_IsLastIsLastOfExit ==
    pc = "annotated" =>
        /\ Cardinality(LastFlagged) <= 1
        /\ \A b \in LastFlagged :
               /\ bonds[exit_bond].descendants # <<>>
               /\ b = bonds[exit_bond].descendants[Len(bonds[exit_bond].descendants)]

\* annotateRings after the first k rings of plan
annotated_upto(plan, k) ==
    annotate_loop([bonds |-> bonds, bond_angles |-> bond_angles], seen_bonds,
                  [plan EXCEPT !.rings = SubSeq(@, 1, k)], 1)

\* annotateRing : the ring gets the circle
DrawnWithCircle(r, aromatic_circles) ==
    /\ ~too_large({getBond(seen_bonds, c) : c \in r.ring})
    /\ r.is_aromatic /\ is_symmetric(r.shape) /\ aromatic_circles

\* the nodes of the tree of bs
TreeNodes(bs) == Range(treebonds_from(bs, root))

\* the AromaticRingBond nodes among the objects bs
RingNodes(bs) == {n \in DOMAIN bs : n[1] = "arb"}

\* what aromatizeRing leaves of the k-th ring of plan: its bonds are in the
\* tree and aromatic, one new node is in the tree, an AromaticRingBond, and
\* it is the last child of a bond of the ring and the child of no other bond
Aromatized(plan, k) ==
    LET before == annotated_upto(plan, k - 1).bonds
        after == annotated_upto(plan, k).bonds
        ringbonds == {getBond(seen_bonds, c) : c \in plan.rings[k].ring}
        added == TreeNodes(after) \ TreeNodes(before)
    IN  /\ \A b \in ringbonds : b \in TreeNodes(after) /\ after[b].bond_type = "aromatic"
        /\ Cardinality(added) = 1
        /\ added = RingNodes(after) \ RingNodes(before)
        /\ \A arb \in added :
               /\ after[arb].descendants = <<>>
               /\ \E b \in ringbonds :
                      /\ after[b].descendants # <<>>
                      /\ after[b].descendants[Len(after[b].descendants)] = arb
                      /\ \A c \in TreeNodes(after) \ {b} :
                             arb \notin Range(after[c].descendants)
                      /\ Cardinality({i \in 1..Len(after[b].descendants) :
                                         after[b].descendants[i] = arb}) = 1

\* C27: when a ring is drawn with an aromatic circle, every tree-attached
\* bond of the ring has bond_type 'aromatic' afterwards, exactly one
\* AromaticRingBond is added to the tree for the ring, as the last child of a
\* tree-attached bond of the ring, and an AromaticRingBond never has
\* descendants.
C27_CircleOnAromatizedRing ==
    /\ [][pc = "scaled" =>
             \A plan \in RingPlans(tkmol) :
                 annotate_rings(plan) =>
                     /\ \A k \in 1..Len(plan.rings) :
                            DrawnWithCircle(plan.rings[k], plan.aromatic_circles) =>
                                /\ Aromatized(plan, k)
                                /\ \A c \in plan.rings[k].ring :
                                       bonds'[getBond(seen_bonds, c)].bond_type = "aromatic"
                     /\ Cardinality(RingNodes(bonds')) =
                            Cardinality({k \in 1..Len(plan.rings) :
                                DrawnWithCircle(plan.rings[k], plan.aromatic_circles)})]_vars
    /\ [](\A n \in RingNodes(bonds) : bonds[n].descendants = <<>>)

\* two rings with a circle each, both circles in the tree
C27_Witness ==
    /\ pc = "annotated"
    /\ Cardinality(RingNodes(bonds) \cap TreeNodes(bonds)) = 2

\* the bonds that parseTree flagged to_phantom: the ring closures
RingClosures == {b \in DOMAIN bonds : b[1] = "bond" /\ bonds[b].to_phantom}

\* C28: ring-closure bonds stay leaves through all post-processing: from
\* the end of parseTree to the start of rendering every bond that parseTree
\* flagged to_phantom has an empty descendants list.
C28_RingClosuresStayLeaves ==
    pc \in {"tree", "trunk", "crossed", "scaled", "annotated"} =>
        \A b \in RingClosures : bonds[b].descendants = <<>>

\* the same up to the ring annotation
C28_RingClosuresLeavesUntilRings ==
    pc \in {"tree", "trunk", "crossed", "scaled"} =>
        \A b \in RingClosures : bonds[b].descendants = <<>>

\* the lines of out that render the node n
LinesOf(out, n) == {i \in 1..Len(out) : out[i].kind = "bond" /\ out[i].node = n}

\* the line of out that renders the node n
LineOf(out, n) == CHOOSE i \in 1..Len(out) : out[i].kind = "bond" /\ out[i].node = n

\* in out the branch of the node c, a child of the node of line ip, stands
\* in a bracket pair of its own that is closed before line upto
InOwnBrackets(out, ip, c, upto) ==
    LET ic == LineOf(out, c)
    IN  /\ ip < ic /\ ic < upto
        /\ out[ic - 1].kind = "("
        /\ BracketDepth(out, ic - 1) = BracketDepth(out, ip)
        /\ \E j \in (ic + 1)..(upto - 1) :
               /\ out[j].kind = ")"
               /\ BracketDepth(out, j + 1) = BracketDepth(out, ip)
               /\ \A l \in ic..j : BracketDepth(out, l) > BracketDepth(out, ip)

\* C29: the render pass of the construction emits exactly one line for
\* every node of the final tree and no node twice; the '(' and ')' lines are
\* balanced and properly nested; and of the children of a bond other than
\* exit_bond all but one are emitted each in its own bracket pair, in list
\* order, followed by the remaining child unbracketed at the level of the
\* parent, which is the trunk child if there is one and the first child
\* otherwise.
C29_RenderLayout ==
    [][(pc = "annotated" /\ pc' = "rendered") =>
           LET out == rendered'
           IN  /\ \A n \in TreeNodes(bonds) : Cardinality(LinesOf(out, n)) = 1
               /\ Cardinality({i \in 1..Len(out) : out[i].kind = "bond"})
                      = Cardinality(TreeNodes(bonds))
               /\ \A i \in 1..(Len(out) + 1) : BracketDepth(out, i) >= 0
               /\ BracketDepth(out, Len(out) + 1) = 0
               /\ \A p \in TreeNodes(bonds) \ {exit_bond} :
                      LET D == bonds[p].descendants
                          ip == LineOf(out, p)
                      IN  D # <<>> =>
                            \E f \in 1..Len(D) :
                              /\ IF \E i \in 1..Len(D) : bonds[D[i]].is_trunk
                                 THEN bonds[D[f]].is_trunk ELSE f = 1
                              /\ ip < LineOf(out, D[f])
                              /\ BracketDepth(out, LineOf(out, D[f])) = BracketDepth(out, ip)
                              /\ out[LineOf(out, D[f])].level = out[ip].level
                              /\ \A i \in 1..Len(D) \ {f} :
                                     InOwnBrackets(out, ip, D[i], LineOf(out, D[f]))
                              /\ \A i, j \in 1..Len(D) \ {f} :
                                     i < j => LineOf(out, D[i]) < LineOf(out, D[j])
    ]_vars

\* a rendered molecule in which a bond other than the exit bond has three
\* children, the trunk child not being the first of them
C29_Witness ==
    /\ pc = "rendered"
    /\ \E p \in DOMAIN bonds \ {exit_bond} :
           LET children == {c \in DOMAIN bonds : bonds[c].parent = p /\ LinesOf(rendered, c) # {}}
           IN  /\ Cardinality(children) >= 3
               /\ \E c, d \in children :
                      /\ bonds[c].is_trunk
                      /\ LineOf(rendered, d) < LineOf(rendered, c)
                      /\ d[3] < c[3]

\* C30: rendering does not change the tree: after render() every bond's
\* descendants list is the same as before the call, a second call of
\* render() returns the same line list as the first, and treebonds() still
\* returns every tree bond.
C30_RenderKeepsTree ==
    [][(pc = "annotated" /\ pc' = "rendered") =>
           /\ \A b \in DOMAIN bonds : bonds'[b].descendants = bonds[b].descendants
           /\ render(bonds', root, exit_bond).output = rendered'
           /\ treebonds(bonds', root) = treebonds(bonds, root)
    ]_vars

====
